---- MODULE Spec2Model ----
(***************************************************************************)
(* Document store layered on a transactional ordered key-value store.     *)
(* The module models the DocumentStore facade (key codec, index           *)
(* maintenance, find / forEach, transactions), the index selection of     *)
(* Collection and the schema engine (create, lock, upgrade, migrate,      *)
(* unlock, removeCollectionsMarkedAsRemoved).                             *)
(***************************************************************************)
EXTENDS Integers, Sequences, FiniteSets, TLC

(***************************************************************************)
(* Bounds of the model.                                                    *)
(***************************************************************************)
MaxKey == 2          \* document keys are 1..MaxKey
MaxVal == 2          \* defined property values are 1..MaxVal
MaxTxOps == 2        \* writes performed through one transaction handle
MaxBatch == 2        \* batchSize given to forEach is 1..MaxBatch
MaxVisits == 4       \* forEach is cut off after this many callback calls
MaxNesting == 2      \* transaction(fn) calls nested on a transaction handle

(***************************************************************************)
(* Values.  A property value is a number; `undefined` is what JavaScript   *)
(* yields for a missing property.                                          *)
(***************************************************************************)
undefined == 0
Vals == 1..MaxVal
Vals0 == {undefined} \cup Vals
DocKeys == 1..MaxKey

\* Documents: { a: <value>, n: { c: <value> } }; a property holding
\* `undefined` stands for a property that is not there.
Docs == [a : Vals0, n : [c : Vals0]]

\* An optional document (the result of a point read).
None == [present |-> FALSE]
Some(d) == [present |-> TRUE, doc |-> d]

\* expand-flatten: nested objects become dotted paths.
flatten(doc) == [k \in {"a", "n.c"} |-> IF k = "a" THEN doc.a ELSE doc.n.c]

\* doc[k] on the stored (unflattened) document: only top-level properties
\* are found; "n" holds an object, which is not modelled as a key value.
DocProperty(doc, k) == IF k = "a" THEN doc.a ELSE undefined

(***************************************************************************)
(* Sequence helpers.                                                       *)
(***************************************************************************)
Range(s) == {s[i] : i \in DOMAIN s}

Includes(s, v) == \E i \in DOMAIN s : s[i] = v

IsPrefix(p, k) == Len(p) <= Len(k) /\ SubSeq(k, 1, Len(p)) = p

Tail0(k, n) == SubSeq(k, n + 1, Len(k))

Last(s) == s[Len(s)]

Reverse(s) == [i \in 1..Len(s) |-> s[Len(s) + 1 - i]]

Take(s, n) == IF Len(s) <= n THEN s ELSE SubSeq(s, 1, n)

RECURSIVE Join(_, _)
Join(keys, sep) ==
  IF Len(keys) = 0 THEN ""
  ELSE IF Len(keys) = 1 THEN keys[1]
  ELSE keys[1] \o sep \o Join(Tail(keys), sep)

(***************************************************************************)
(* The key-value store (package key-value-store).  A store content is a    *)
(* function from composite keys (tuples) to values.  Keys are ordered      *)
(* element-wise; the elements after a scan prefix are numbers.             *)
(***************************************************************************)
RECURSIVE TupleLess(_, _)
TupleLess(s, t) ==
  IF Len(t) = 0 THEN FALSE
  ELSE IF Len(s) = 0 THEN TRUE
  ELSE IF s[1] # t[1] THEN s[1] < t[1]
  ELSE TupleLess(Tail(s), Tail(t))

RECURSIVE SortTuples(_)
SortTuples(S) ==
  IF S = {} THEN << >>
  ELSE LET m == CHOOSE x \in S : \A y \in S \ {x} : TupleLess(x, y)
       IN  <<m>> \o SortTuples(S \ {m})

\* An optional range bound (start, startAfter, end, endBefore).
NoBound == [set |-> FALSE, key |-> << >>]
Bound(k) == [set |-> TRUE, key |-> k]

\* Options of a range scan; limit 0 stands for "no limit".
ScanOptions(prefix) ==
  [prefix |-> prefix, start |-> NoBound, startAfter |-> NoBound,
   end |-> NoBound, endBefore |-> NoBound, reverse |-> FALSE, limit |-> 0]

KVHas(s, key) == key \in DOMAIN s

KVGet(s, key) == IF key \in DOMAIN s THEN Some(s[key]) ELSE None

\* put(key, value, {createIfMissing = true, errorIfExists = false})
KVPutFails(s, key, createIfMissing, errorIfExists) ==
  \/ errorIfExists /\ KVHas(s, key)
  \/ ~createIfMissing /\ ~KVHas(s, key)

KVPut(s, key, value) ==
  [k \in DOMAIN s \cup {key} |-> IF k = key THEN value ELSE s[k]]

KVDelete(s, key) == [k \in DOMAIN s \ {key} |-> s[k]]

\* A bound b on the tail t of a key (the elements after the prefix): a bound
\* covers every key it is a prefix of, so `start` and `end` include those
\* keys and `startAfter` and `endBefore` exclude them.
InRange(t, o) ==
  /\ o.start.set => ~TupleLess(t, o.start.key)
  /\ o.startAfter.set =>
       TupleLess(o.startAfter.key, t) /\ ~IsPrefix(o.startAfter.key, t)
  /\ o.end.set => TupleLess(t, o.end.key) \/ IsPrefix(o.end.key, t)
  /\ o.endBefore.set => TupleLess(t, o.endBefore.key)

KVRange(s, o) ==
  {k \in DOMAIN s : IsPrefix(o.prefix, k) /\ InRange(Tail0(k, Len(o.prefix)), o)}

\* find(options): the keys of the range in key order (reversed on demand),
\* cut to `limit`.
KVFind(s, o) ==
  LET n == Len(o.prefix)
      tails == SortTuples({Tail0(k, n) : k \in KVRange(s, o)})
      ordered == IF o.reverse THEN Reverse(tails) ELSE tails
      cut == IF o.limit > 0 THEN Take(ordered, o.limit) ELSE ordered
  IN  [i \in 1..Len(cut) |-> o.prefix \o cut[i]]

KVCount(s, o) == Cardinality(KVRange(s, o))

KVFindAndDelete(s, prefix) ==
  [k \in {x \in DOMAIN s : ~IsPrefix(prefix, x)} |-> s[k]]

(***************************************************************************)
(* Collections and indexes.                                                *)
(***************************************************************************)
storeName == "Test"

\* An index property: simple (value === true) or computed (a named function).
Simple(key) == [key |-> key, computed |-> FALSE]
Computed(key) == [key |-> key, computed |-> TRUE]

\* The computed property of the model: function rev(doc), descending on a.
rev(doc) == IF doc.a = undefined THEN undefined ELSE MaxVal + 1 - doc.a

\* new Index({properties, projection, version}); version `undefined` = unset.
Index(properties, hasProjection, projection, version) ==
  [properties |-> properties, hasProjection |-> hasProjection,
   projection |-> projection, version |-> version]

SimpleIndex(keys) ==
  Index([i \in DOMAIN keys |-> Simple(keys[i])], FALSE, << >>, undefined)

\* Index.keys
IndexKeys(index) == [i \in DOMAIN index.properties |-> index.properties[i].key]

Collection(name, indexes) == [name |-> name, indexes |-> indexes]

\* The collections declared by the store of the document operations.
People ==
  Collection("People",
    << SimpleIndex(<<"a", "n.c">>),
       SimpleIndex(<<"n.c", "a">>),
       Index(<<Simple("a")>>, TRUE, <<"a", "n.c">>, undefined),
       Index(<<Computed("rev")>>, FALSE, << >>, undefined) >>)

Notes == Collection("Notes", << >>)

Collections == {People, Notes}

(***************************************************************************)
(* Key codec.                                                              *)
(***************************************************************************)
\* Variant: the collection name is left out of the document key.
makeDocumentKeyNoCollection(collection, key) == <<storeName, storeName, key>>

makeDocumentKey(collection, key) == <<storeName, collection.name, key>>

makeIndexName(keys) == Join(keys, "+")

makeIndexCollectionName(collectionName, indexName) ==
  collectionName \o ":" \o indexName

makeIndexKey(collection, index, values, key) ==
  <<storeName,
    makeIndexCollectionName(collection.name, makeIndexName(IndexKeys(index)))>>
    \o values \o <<key>>

\* Variant: the prefix stops at the name segment, the query values are not
\* appended.
makeIndexKeyForQueryNoValues(collection, index, query) ==
  <<storeName,
    makeIndexCollectionName(collection.name, makeIndexName(IndexKeys(index)))>>

\* query: a function from its keys to the queried values.
makeIndexKeyForQuery(collection, index, query) ==
  LET keys == IndexKeys(index)
      n == Cardinality(DOMAIN query)
  IN  <<storeName,
        makeIndexCollectionName(collection.name, makeIndexName(keys))>>
        \o [i \in 1..n |-> IF i <= Len(keys) /\ keys[i] \in DOMAIN query
                             THEN query[keys[i]] ELSE undefined]

\* The document carried by an item of a result: nothing, a full document or
\* a projection payload.
NoDocument == [present |-> FALSE]
FullDocument(d) == [present |-> TRUE, doc |-> d]
Payload(f) == [present |-> TRUE, payload |-> f]

\* doc[k] on the document of an item.
ItemProperty(document, k) ==
  IF "doc" \in DOMAIN document THEN DocProperty(document.doc, k)
  ELSE IF "payload" \in DOMAIN document /\ k \in DOMAIN document.payload
    THEN document.payload[k]
  ELSE undefined

\* order.map(k => doc[k]) followed by the key; order is a list here.
makeOrderKey(key, document, order) ==
  [i \in DOMAIN order |-> ItemProperty(document, order[i])] \o <<key>>

(***************************************************************************)
(* Index maintenance.  A step on a store content s yields a result         *)
(* [ok, store]: ok = FALSE when the key-value store raised an error.       *)
(***************************************************************************)
Ok(s) == [ok |-> TRUE, store |-> s]
Failed(s) == [ok |-> FALSE, store |-> s]

\* oldDoc && flattenedOldDoc[property.key]  /  oldDoc && property.value(oldDoc)
PropertyValue(property, doc) ==
  IF ~doc.present THEN undefined
  ELSE IF property.computed THEN rev(doc.doc)
  ELSE IF property.key \in DOMAIN flatten(doc.doc)
    THEN flatten(doc.doc)[property.key]
  ELSE undefined

IndexValues(index, doc) ==
  [i \in DOMAIN index.properties |-> PropertyValue(index.properties[i], doc)]

\* The projection payload: the projected paths whose value is not null; the
\* empty function stands for `undefined` (no projection object was built).
Projection(index, doc) ==
  IF ~index.hasProjection \/ ~doc.present THEN << >>
  ELSE LET flat == flatten(doc.doc)
           ks == {k \in Range(index.projection) : flat[k] # undefined}
       IN  [k \in ks |-> flat[k]]

\* Variant: the old entry is deleted only when a new one replaces it.
updateIndexDeletesOldOnRewrite(oldValues, newValues) ==
  /\ oldValues # newValues
  /\ ~Includes(oldValues, undefined) /\ ~Includes(newValues, undefined)

updateIndexDeletesOld(oldValues, newValues) ==
  oldValues # newValues /\ ~Includes(oldValues, undefined)

\* Variant: a change of the projection alone does not rewrite the entry.
updateIndexWritesNewOnValues(oldValues, newValues, oldProjection, newProjection) ==
  oldValues # newValues /\ ~Includes(newValues, undefined)

updateIndexWritesNew(oldValues, newValues, oldProjection, newProjection) ==
  /\ oldValues # newValues \/ oldProjection # newProjection
  /\ ~Includes(newValues, undefined)

updateIndex(s, collection, key, oldDoc, newDoc, index) ==
  LET oldValues == IndexValues(index, oldDoc)
      newValues == IndexValues(index, newDoc)
      oldProjection == Projection(index, oldDoc)
      newProjection == Projection(index, newDoc)
      oldKey == makeIndexKey(collection, index, oldValues, key)
      newKey == makeIndexKey(collection, index, newValues, key)
      deletes == updateIndexDeletesOld(oldValues, newValues)
      writes == updateIndexWritesNew(oldValues, newValues,
                                     oldProjection, newProjection)
      s1 == IF deletes THEN KVDelete(s, oldKey) ELSE s
      s2 == IF writes THEN KVPut(s1, newKey, newProjection) ELSE s1
  IN  IF deletes /\ ~KVHas(s, oldKey) THEN Failed(s) ELSE Ok(s2)

\* Variant: the new entry is written whenever its values are defined.
updateIndexCallsAlwaysPut(collection, key, oldDoc, newDoc, index) ==
  LET oldValues == IndexValues(index, oldDoc)
      newValues == IndexValues(index, newDoc)
  IN  (IF updateIndexDeletesOld(oldValues, newValues)
         THEN << [op |-> "delete",
                  key |-> makeIndexKey(collection, index, oldValues, key),
                  value |-> << >>] >>
         ELSE << >>)
        \o (IF ~Includes(newValues, undefined)
              THEN << [op |-> "put",
                       key |-> makeIndexKey(collection, index, newValues, key),
                       value |-> Projection(index, newDoc)] >>
              ELSE << >>)

\* The calls of the key-value store that updateIndex makes, in order:
\* store.delete(indexKey), store.put(indexKey, newProjection).
updateIndexCalls(collection, key, oldDoc, newDoc, index) ==
  LET oldValues == IndexValues(index, oldDoc)
      newValues == IndexValues(index, newDoc)
  IN  (IF updateIndexDeletesOld(oldValues, newValues)
         THEN << [op |-> "delete",
                  key |-> makeIndexKey(collection, index, oldValues, key),
                  value |-> << >>] >>
         ELSE << >>)
        \o (IF updateIndexWritesNew(oldValues, newValues,
                                    Projection(index, oldDoc),
                                    Projection(index, newDoc))
              THEN << [op |-> "put",
                       key |-> makeIndexKey(collection, index, newValues, key),
                       value |-> Projection(index, newDoc)] >>
              ELSE << >>)

RECURSIVE updateIndexesFrom(_, _, _, _, _, _)
updateIndexesFrom(s, collection, key, oldDoc, newDoc, i) ==
  IF i > Len(collection.indexes) THEN Ok(s)
  ELSE LET r == updateIndex(s, collection, key, oldDoc, newDoc,
                            collection.indexes[i])
       IN  IF r.ok
             THEN updateIndexesFrom(r.store, collection, key, oldDoc, newDoc, i + 1)
             ELSE r

updateIndexes(s, collection, key, oldDoc, newDoc) ==
  updateIndexesFrom(s, collection, key, oldDoc, newDoc, 1)

(***************************************************************************)
(* Basic operations, as run on the store content s of the facade they are  *)
(* called on (the key-value store, or the transaction of a handle).        *)
(***************************************************************************)
get(s, collection, key) == KVGet(s, makeDocumentKey(collection, key))

\* The body of put's transaction.
put(s, collection, key, doc, createIfMissing, errorIfExists) ==
  LET docKey == makeDocumentKey(collection, key)
      oldDoc == KVGet(s, docKey)
  IN  IF KVPutFails(s, docKey, createIfMissing, errorIfExists) THEN Failed(s)
      ELSE updateIndexes(KVPut(s, docKey, doc), collection, key, oldDoc, Some(doc))

\* Variant: the document is deleted and its index entries are left.
deleteKeepsIndexes(s, collection, key, errorIfMissing) ==
  LET docKey == makeDocumentKey(collection, key)
  IN  IF ~KVHas(s, docKey)
        THEN [ok |-> ~errorIfMissing, store |-> s, hasBeenDeleted |-> FALSE]
        ELSE [ok |-> TRUE, store |-> KVDelete(s, docKey), hasBeenDeleted |-> TRUE]

\* The body of delete's transaction: [ok, store, hasBeenDeleted].
delete(s, collection, key, errorIfMissing) ==
  LET docKey == makeDocumentKey(collection, key)
      oldDoc == KVGet(s, docKey)
      r == updateIndexes(KVDelete(s, docKey), collection, key, oldDoc, None)
  IN  IF ~oldDoc.present
        THEN [ok |-> ~errorIfMissing, store |-> s, hasBeenDeleted |-> FALSE]
        ELSE [ok |-> r.ok, store |-> r.store, hasBeenDeleted |-> r.ok]

(***************************************************************************)
(* Index selection (Collection).  A query is a function from its keys to   *)
(* values; an order option is absent, a bare string or an array.           *)
(***************************************************************************)
NoOrder == [kind |-> "none", val |-> << >>]
OrderString(k) == [kind |-> "string", val |-> <<k>>]
OrderArray(ks) == [kind |-> "array", val |-> ks]

NoQuery == << >>

\* if (!order) order = []; if (!Array.isArray(keys)) keys = [keys]
normalizeKeys(order) ==
  IF order.kind = "array" THEN order.val
  ELSE IF order.kind = "string" THEN <<order.val[1]>>
  ELSE << >>

\* lodash difference(queryKeys, keys): the query keys that are not in keys.
difference(queryKeys, keys) == queryKeys \ Range(keys)

\* Variant: the query keys are looked for among all the keys of the index.
MatchesQueryAnywhere(idx, queryKeys) ==
  difference(queryKeys, IndexKeys(idx)) = {}

\* The filter on the query keys (collection.js 47-53).
MatchesQuery(idx, queryKeys) ==
  Cardinality(queryKeys) = 0
    \/ difference(queryKeys, Take(IndexKeys(idx), Cardinality(queryKeys))) = {}

\* The test on the order keys (collection.js 54-58).
MatchesOrder(idx, queryKeys, orderKeys) ==
  Tail0(IndexKeys(idx), Cardinality(queryKeys)) = orderKeys

\* The position of the selected index in `indexes`; 0 when none is found
\* (the function throws 'Index not found').
findIndexForQueryAndOrder(indexes, query, order) ==
  LET queryKeys == DOMAIN query
      orderKeys == normalizeKeys(order)
      found == {i \in DOMAIN indexes :
                  /\ MatchesQuery(indexes[i], queryKeys)
                  /\ MatchesOrder(indexes[i], queryKeys, orderKeys)}
  IN  IF found = {} THEN 0
      ELSE CHOOSE i \in found : \A j \in found : i <= j

(***************************************************************************)
(* find, getMany.  Options carry query, order, the properties to fetch     *)
(* ('*' or a list) and the range options handed to the key-value store.    *)
(***************************************************************************)
AllProperties == [all |-> TRUE, list |-> << >>]
Properties(list) == [all |-> FALSE, list |-> list]

FindOptions(query, order) ==
  [query |-> query, order |-> order, properties |-> AllProperties,
   start |-> NoBound, startAfter |-> NoBound, end |-> NoBound,
   endBefore |-> NoBound, reverse |-> FALSE, limit |-> 0]

\* Variant: reverse is not handed to the key-value store.
StoreOptionsForward(options, prefix) ==
  [prefix |-> prefix, start |-> options.start, startAfter |-> options.startAfter,
   end |-> options.end, endBefore |-> options.endBefore,
   reverse |-> FALSE, limit |-> options.limit]

\* Variant: the exclusive bounds are handed over as the inclusive ones.
StoreOptionsInclusive(options, prefix) ==
  [prefix |-> prefix,
   start |-> IF options.startAfter.set THEN options.startAfter
             ELSE options.start,
   startAfter |-> NoBound,
   end |-> IF options.endBefore.set THEN options.endBefore ELSE options.end,
   endBefore |-> NoBound,
   reverse |-> options.reverse, limit |-> options.limit]

\* The options as the key-value store reads them, under a prefix.
StoreOptions(options, prefix) ==
  [prefix |-> prefix, start |-> options.start, startAfter |-> options.startAfter,
   end |-> options.end, endBefore |-> options.endBefore,
   reverse |-> options.reverse, limit |-> options.limit]

\* options.properties === '*' || options.properties.length
returnValues(properties) == properties.all \/ Len(properties.list) > 0

\* getMany(collection, keys, {errorIfMissing: false}): the documents found,
\* in the order of the keys.
RECURSIVE getMany(_, _, _, _)
getMany(s, collection, keys, properties) ==
  IF Len(keys) = 0 THEN << >>
  ELSE LET docKey == makeDocumentKey(collection, keys[1])
           rest == getMany(s, collection, Tail(keys), properties)
       IN  IF ~KVHas(s, docKey) THEN rest
           ELSE << [key |-> keys[1],
                    document |-> IF returnValues(properties)
                                   THEN FullDocument(s[docKey])
                                   ELSE NoDocument] >> \o rest

\* difference(options.properties, index.projection).length === 0
projectionSatisfies(index, properties) ==
  \A i \in DOMAIN properties.list :
    index.hasProjection /\ Includes(index.projection, properties.list[i])

\* items.map(item => item.key)
KeysOfItems(items) == [i \in DOMAIN items |-> items[i].key]

\* fetchDoc after the comparison with the projection: full documents are
\* asked for, or the projection does not hold the properties asked for.
findFetchesDocuments(options, index) ==
  LET fetchDoc0 == options.properties.all
      wanted == ~fetchDoc0 /\ Len(options.properties.list) > 0
      useProjection == wanted /\ projectionSatisfies(index, options.properties)
  IN  fetchDoc0 \/ (wanted /\ ~useProjection)

\* The first pass: store.find on the index and the items made of its pairs.
findIndexItems(s, collection, options, index) ==
  LET wanted == ~options.properties.all /\ Len(options.properties.list) > 0
      useProjection == wanted /\ projectionSatisfies(index, options.properties)
      prefix == makeIndexKeyForQuery(collection, index, options.query)
      found == KVFind(s, StoreOptions(options, prefix))
  IN  [i \in DOMAIN found |->
         [key |-> Last(found[i]),
          document |-> IF useProjection THEN Payload(s[found[i]])
                       ELSE NoDocument]]

findWithIndex(s, collection, options, index) ==
  LET items == findIndexItems(s, collection, options, index)
  IN  IF findFetchesDocuments(options, index)
        THEN getMany(s, collection, [i \in DOMAIN items |-> items[i].key],
                     AllProperties)
        ELSE items

\* find(collection, options): [ok, items]; ok = FALSE when no index matches.
find(s, collection, options) ==
  IF DOMAIN options.query # {} \/ Len(normalizeKeys(options.order)) > 0
    THEN LET i == findIndexForQueryAndOrder(collection.indexes, options.query,
                                            options.order)
         IN  IF i = 0 THEN [ok |-> FALSE, items |-> << >>]
             ELSE [ok |-> TRUE,
                   items |-> findWithIndex(s, collection, options,
                                           collection.indexes[i])]
  ELSE LET prefix == <<storeName, collection.name>>
           found == KVFind(s, StoreOptions(options, prefix))
       IN  [ok |-> TRUE,
            items |-> [i \in DOMAIN found |->
                         [key |-> Last(found[i]),
                          document |-> IF returnValues(options.properties)
                                         THEN FullDocument(s[found[i]])
                                         ELSE NoDocument]]]

(***************************************************************************)
(* State.                                                                  *)
(***************************************************************************)
VARIABLES
  kv,      \* the committed content of the key-value store
  tx,      \* the transaction opened by transaction(fn) and its handle
  fe,      \* the forEach call in progress
  inst,    \* the store instances (one per process) and their schema work
  sel,     \* a call of findIndexForQueryAndOrder: its arguments and result
  out      \* the last operation observed: its arguments and its outcome

vars == <<kv, tx, fe, inst, sel, out>>

\* The schema record a store creates for its declared collections.
IndexToJSON(index) ==
  [keys |-> IndexKeys(index), hasProjection |-> index.hasProjection,
   projection |-> index.projection, version |-> index.version]

CollectionToJSON(collection) ==
  [name |-> collection.name, hasBeenRemoved |-> FALSE,
   indexes |-> [i \in DOMAIN collection.indexes |->
                  IndexToJSON(collection.indexes[i])]]

VERSION == 3

NewRecord(collections) ==
  [name |-> storeName, version |-> VERSION, isLocked |-> FALSE,
   collections |-> [i \in DOMAIN collections |-> CollectionToJSON(collections[i])]]

\* A read through the handle of transaction(fn): none yet.
NoRead == [set |-> FALSE, name |-> "", key |-> 0, result |-> None]

\* opened counts the transactions of the key-value store the call has
\* started, depth the transaction(fn) calls in progress on the handle;
\* wrote holds, per document addressed, what the last write left; read is
\* the last read made since.
NoTx ==
  [status |-> "none", view |-> << >>, before |-> << >>, ops |-> 0,
   touched |-> {}, opened |-> 0, depth |-> 0, wrote |-> << >>,
   read |-> NoRead]

\* given holds the options as the caller gave them, options those of the
\* next find.
NoForEach ==
  [status |-> "idle", collection |-> Notes,
   options |-> FindOptions(NoQuery, NoOrder), visited |-> << >>,
   given |-> FindOptions(NoQuery, NoOrder)]

\* The facade is idle: no transaction() or forEach() call is in progress.
Idle == tx.status = "none" /\ fe.status = "idle"

(***************************************************************************)
(* put and delete on the root facade: one transaction of the key-value     *)
(* store each; a failure aborts it and leaves the store as it was.         *)
(***************************************************************************)
Put(collection, key, doc, createIfMissing, errorIfExists) ==
  LET r == put(kv, collection, key, doc, createIfMissing, errorIfExists)
  IN  /\ Idle
      /\ kv' = IF r.ok THEN r.store ELSE kv
      /\ UNCHANGED <<tx, fe, inst, sel, out>>

Delete(collection, key, errorIfMissing) ==
  LET r == delete(kv, collection, key, errorIfMissing)
  IN  /\ Idle
      /\ kv' = IF r.ok THEN r.store ELSE kv
      /\ UNCHANGED <<tx, fe, inst, sel, out>>

(***************************************************************************)
(* transaction(fn): the handle is the facade with its store replaced by    *)
(* the store's transaction; fn's operations run on the handle.             *)
(***************************************************************************)
\* Variant: the handle keeps the root store (transaction.store is not set).
transactionStoreRoot == "root"

\* Which store the operations of the handle act on.
transactionStore == "transaction"

HandleContent == IF transactionStore = "transaction" THEN tx.view ELSE kv

\* Variant: no facade is taken for a transaction handle.
insideTransactionNever(facade) == FALSE

\* get insideTransaction() { return this !== this.root; }
insideTransaction(facade) == facade # "root"

\* transaction(fn) on a facade: inside a transaction fn runs on the facade
\* itself; otherwise store.transaction() is called.  The number of calls of
\* store.transaction() this adds.
storeTransactions(facade) == IF insideTransaction(facade) THEN 0 ELSE 1

\* A write through the handle (put and delete run their body through
\* this.transaction); touched records the documents addressed.
HandleWrite(s, collection, key) ==
  LET t == [tx EXCEPT !.ops = @ + 1,
                      !.touched = @ \cup {<<collection.name, key>>},
                      !.opened = @ + storeTransactions("handle"),
                      !.wrote = (<<collection.name, key>>
                                   :> get(s, collection, key)) @@ @,
                      !.read = NoRead]
  IN  IF transactionStore = "transaction"
        THEN tx' = [t EXCEPT !.view = s] /\ UNCHANGED kv
        ELSE tx' = t /\ kv' = s

TxBegin ==
  /\ Idle
  /\ tx' = [NoTx EXCEPT !.status = "open", !.view = kv, !.before = kv,
                        !.opened = storeTransactions("root")]
  /\ UNCHANGED <<kv, fe, inst, sel, out>>

\* put through the handle; a failing put raises an error in fn (see TxAbort).
TxPut(collection, key, doc, createIfMissing, errorIfExists) ==
  LET r == put(HandleContent, collection, key, doc, createIfMissing, errorIfExists)
  IN  /\ tx.status = "open" /\ tx.ops < MaxTxOps
      /\ r.ok
      /\ HandleWrite(r.store, collection, key)
      /\ UNCHANGED <<fe, inst, sel, out>>

TxDelete(collection, key, errorIfMissing) ==
  LET r == delete(HandleContent, collection, key, errorIfMissing)
  IN  /\ tx.status = "open" /\ tx.ops < MaxTxOps
      /\ r.ok
      /\ HandleWrite(r.store, collection, key)
      /\ UNCHANGED <<fe, inst, sel, out>>

\* get through the handle.
TxGet(collection, key) ==
  /\ tx.status = "open"
  /\ tx' = [tx EXCEPT !.read = [set |-> TRUE, name |-> collection.name,
                                key |-> key,
                                result |-> get(HandleContent, collection, key)]]
  /\ UNCHANGED <<kv, fe, inst, sel, out>>

\* fn calls transaction(fn2) on the handle: fn2 gets the handle.
TxNest ==
  /\ tx.status = "open" /\ tx.depth < MaxNesting
  /\ tx' = [tx EXCEPT !.depth = @ + 1,
                      !.opened = @ + storeTransactions("handle")]
  /\ UNCHANGED <<kv, fe, inst, sel, out>>

\* fn2 returns to fn; nothing is committed.
TxUnnest ==
  /\ tx.status = "open" /\ tx.depth > 0
  /\ tx' = [tx EXCEPT !.depth = @ - 1]
  /\ UNCHANGED <<kv, fe, inst, sel, out>>

\* fn returns: the store commits the transaction.
TxCommit ==
  /\ tx.status = "open" /\ tx.depth = 0
  /\ kv' = IF transactionStore = "transaction" THEN tx.view ELSE kv
  /\ tx' = [tx EXCEPT !.status = "committed", !.view = << >>]
  /\ UNCHANGED <<fe, inst, sel, out>>

\* fn throws: the store rolls the transaction back and the error propagates.
TxAbort ==
  /\ tx.status = "open"
  /\ tx' = [tx EXCEPT !.status = "aborted", !.view = << >>]
  /\ UNCHANGED <<kv, fe, inst, sel, out>>

\* The caller goes on after transaction() returned or threw.
TxReturn ==
  /\ tx.status \in {"committed", "aborted"}
  /\ tx' = NoTx
  /\ UNCHANGED <<kv, fe, inst, sel, out>>

(***************************************************************************)
(* forEach(collection, options, fn): find() in batches of batchSize; fn is *)
(* called on every item of a batch, then the next batch starts after the   *)
(* order key of the batch's last item.  fn does not write to the store.    *)
(***************************************************************************)
DefaultBatchSize == 250

\* A number above every value and key: where an `undefined` element of a
\* cursor sorts when the key-value store orders it last.
Top == MaxVal + MaxKey + 1

\* How the key-value store treats `undefined` inside a range bound: it is
\* ordered before every number, after every number, or rejected.
UndefinedModes == {"first", "last", "rejected"}

CursorFor(orderKey, mode) ==
  [i \in DOMAIN orderKey |->
     IF orderKey[i] = undefined /\ mode = "last" THEN Top ELSE orderKey[i]]

\* forEach(collection, options, fn) up to its first find: options.limit =
\* options.batchSize.  batchSize 0 stands for an options object without
\* batchSize.
FeStartOptions(collection, options, batchSize) ==
  /\ Idle
  /\ fe' = [status |-> "running", collection |-> collection,
            options |-> [options EXCEPT
                           !.limit = IF batchSize = 0 THEN DefaultBatchSize
                                     ELSE batchSize],
            visited |-> << >>, given |-> options]
  /\ UNCHANGED <<kv, tx, inst, sel, out>>

\* forEach with a query and an order only.
FeStart(collection, query, order, batchSize) ==
  FeStartOptions(collection, FindOptions(query, order), batchSize)

\* makeOrderKey(key, doc, order) raises a TypeError: order.map on a string,
\* or doc[k] on a missing document.
makeOrderKeyThrows(document, order) ==
  \/ order.kind = "string"
  \/ order.kind = "array" /\ Len(order.val) > 0 /\ ~document.present

FeBatch ==
  /\ fe.status = "running"
  /\ LET r == find(kv, fe.collection, fe.options)
         order == fe.options.order
         lastItem == Last(r.items)
         visited == fe.visited \o [i \in DOMAIN r.items |-> r.items[i].key]
         orderKey == makeOrderKey(lastItem.key, lastItem.document,
                                  IF order.kind = "array" THEN order.val ELSE << >>)
     IN  IF ~r.ok THEN fe' = [fe EXCEPT !.status = "error"]
         ELSE IF Len(r.items) = 0 THEN fe' = [fe EXCEPT !.status = "done"]
         ELSE IF makeOrderKeyThrows(lastItem.document, order)
           THEN fe' = [fe EXCEPT !.status = "error", !.visited = visited]
         ELSE IF Len(visited) > MaxVisits
           THEN fe' = [fe EXCEPT !.status = "diverged", !.visited = visited]
         ELSE \E mode \in UndefinedModes :
                IF Includes(orderKey, undefined) /\ mode = "rejected"
                  THEN fe' = [fe EXCEPT !.status = "error", !.visited = visited]
                  ELSE fe' = [fe EXCEPT
                                !.visited = visited,
                                !.options.startAfter = Bound(CursorFor(orderKey, mode)),
                                !.options.start = NoBound]
  /\ UNCHANGED <<kv, tx, inst, sel, out>>

\* The caller goes on after forEach() returned or threw.
FeReturn ==
  /\ fe.status \in {"done", "error", "diverged"}
  /\ fe' = NoForEach
  /\ UNCHANGED <<kv, tx, inst, sel, out>>

(***************************************************************************)
(* Index selection as a call of its own: Collection.findIndexForQueryAnd-  *)
(* Order applied to the indexes of a collection, a query and an order.     *)
(***************************************************************************)
NoSel ==
  [indexes |-> << >>, query |-> NoQuery, order |-> NoOrder,
   called |-> FALSE, result |-> 0]

\* The call returns the position of the selected index; 0 stands for the
\* error 'Index not found'.
FindIndexForQueryAndOrder ==
  /\ ~sel.called
  /\ sel' = [sel EXCEPT
               !.called = TRUE,
               !.result = findIndexForQueryAndOrder(sel.indexes, sel.query,
                                                    sel.order)]
  /\ UNCHANGED <<kv, tx, fe, inst, out>>

(***************************************************************************)
(* Operations whose outcome is observed: put and delete with their         *)
(* options, count, findAndDelete.  `out` holds the arguments of the last   *)
(* call, the error it raised ("" for none), the events it emitted and what *)
(* it returned, until the caller goes on.                                  *)
(***************************************************************************)
\* An option that may be left out of the options object.
Flags == {"unset", "true", "false"}

NoArgs ==
  [key |-> 0, doc |-> None, createIfMissing |-> "unset",
   errorIfExists |-> "unset", errorIfMissing |-> "unset",
   options |-> FindOptions(NoQuery, NoOrder), batchSize |-> 0]

\* A key as the caller gives it: what typeof says of it and which value it
\* is.
NoKey == [typeof |-> "undefined", is |-> "none"]

NoOut ==
  [op |-> "none", args |-> NoArgs, error |-> "", events |-> {},
   hasBeenDeleted |-> FALSE, count |-> 0, items |-> << >>,
   given |-> NoKey, accessed |-> FALSE, index |-> 0, old |-> None,
   calls |-> << >>]

\* The defaults of the key-value store: createIfMissing and errorIfMissing
\* are true, errorIfExists is false.
flagOr(flag, default) == IF flag = "unset" THEN default ELSE flag = "true"

\* Variant: createIfMissing is not handed to the key-value store.
putErrorIgnoresCreateIfMissing(s, collection, key, doc, createIfMissing, errorIfExists) ==
  IF errorIfExists /\ KVHas(s, makeDocumentKey(collection, key))
    THEN "DocumentExists"
  ELSE ""

\* The error raised inside put's transaction: by tr.store.put, for its
\* flags, or by a delete of updateIndex that finds no entry.
putError(s, collection, key, doc, createIfMissing, errorIfExists) ==
  LET exists == KVHas(s, makeDocumentKey(collection, key))
  IN  IF errorIfExists /\ exists THEN "DocumentExists"
      ELSE IF ~createIfMissing /\ ~exists THEN "DocumentNotFound"
      ELSE IF ~put(s, collection, key, doc, createIfMissing, errorIfExists).ok
        THEN "IndexEntryMissing"
      ELSE ""

\* put(collection, key, doc, options): willPut is emitted inside the
\* transaction, before the write; didPut after the transaction.
PutCall(collection, key, doc, createIfMissing, errorIfExists) ==
  LET cim == flagOr(createIfMissing, TRUE)
      eie == flagOr(errorIfExists, FALSE)
      error == putError(kv, collection, key, doc, cim, eie)
  IN  /\ Idle /\ out.op = "none"
      /\ kv' = IF error = "" THEN put(kv, collection, key, doc, cim, eie).store
               ELSE kv
      /\ out' = [NoOut EXCEPT
                   !.op = "put",
                   !.args = [NoArgs EXCEPT !.key = key, !.doc = Some(doc),
                                           !.createIfMissing = createIfMissing,
                                           !.errorIfExists = errorIfExists],
                   !.error = error,
                   !.events = IF error = "" THEN {"willPut", "didPut"}
                              ELSE {"willPut"}]
      /\ UNCHANGED <<tx, fe, inst, sel>>

\* The error raised inside delete's transaction: by tr.store.get, for
\* errorIfMissing, or by a delete of updateIndex that finds no entry.
deleteError(s, collection, key, errorIfMissing) ==
  IF ~KVHas(s, makeDocumentKey(collection, key))
    THEN IF errorIfMissing THEN "DocumentNotFound" ELSE ""
  ELSE IF ~delete(s, collection, key, errorIfMissing).ok
    THEN "IndexEntryMissing"
  ELSE ""

\* delete(collection, key, options)
DeleteCall(collection, key, errorIfMissing) ==
  LET eim == flagOr(errorIfMissing, TRUE)
      r == delete(kv, collection, key, eim)
      error == deleteError(kv, collection, key, eim)
  IN  /\ Idle /\ out.op = "none"
      /\ kv' = IF error = "" THEN r.store ELSE kv
      /\ out' = [NoOut EXCEPT
                   !.op = "delete",
                   !.args = [NoArgs EXCEPT !.key = key,
                                           !.errorIfMissing = errorIfMissing],
                   !.error = error,
                   !.events = IF error = "" /\ r.hasBeenDeleted
                                THEN {"willDelete", "didDelete"}
                              ELSE IF r.hasBeenDeleted \/ error = "IndexEntryMissing"
                                THEN {"willDelete"}
                              ELSE {},
                   !.hasBeenDeleted = (error = "" /\ r.hasBeenDeleted)]
      /\ UNCHANGED <<tx, fe, inst, sel>>

\* Variant: the whole index is counted, the query values are not appended
\* to the prefix.
countWithIndexWholeIndex(s, collection, options, index) ==
  KVCount(s, StoreOptions(options,
                          makeIndexKeyForQueryNoValues(collection, index,
                                                       options.query)))

\* _countWithIndex, once the index is found.
countWithIndex(s, collection, options, index) ==
  KVCount(s, StoreOptions(options,
                          makeIndexKeyForQuery(collection, index, options.query)))

\* count(collection, options): [ok, count]; ok = FALSE when no index
\* matches.
count(s, collection, options) ==
  IF DOMAIN options.query # {} \/ Len(normalizeKeys(options.order)) > 0
    THEN LET i == findIndexForQueryAndOrder(collection.indexes, options.query,
                                            options.order)
         IN  IF i = 0 THEN [ok |-> FALSE, count |-> 0]
             ELSE [ok |-> TRUE,
                   count |-> countWithIndex(s, collection, options,
                                            collection.indexes[i])]
  ELSE [ok |-> TRUE,
        count |-> KVCount(s, StoreOptions(options,
                                          <<storeName, collection.name>>))]

CountCall(collection, options) ==
  LET r == count(kv, collection, options)
  IN  /\ Idle /\ out.op = "none"
      /\ out' = [NoOut EXCEPT
                   !.op = "count",
                   !.args = [NoArgs EXCEPT !.options = options],
                   !.error = IF r.ok THEN "" ELSE "IndexNotFound",
                   !.count = r.count]
      /\ UNCHANGED <<kv, tx, fe, inst, sel>>

\* The callback of findAndDelete on the items of a batch, from position n
\* on: delete(collection, key, {errorIfMissing: false}), each in its own
\* transaction; the documents deleted are counted.
RECURSIVE deleteItems(_, _, _, _, _)
deleteItems(s, collection, items, n, deletedDocsCount) ==
  IF n > Len(items)
    THEN [ok |-> TRUE, store |-> s, deletedDocsCount |-> deletedDocsCount]
  ELSE LET r == delete(s, collection, items[n].key, FALSE)
       IN  IF ~r.ok
             THEN [ok |-> FALSE, store |-> s,
                   deletedDocsCount |-> deletedDocsCount]
           ELSE deleteItems(r.store, collection, items, n + 1,
                            IF r.hasBeenDeleted THEN deletedDocsCount + 1
                            ELSE deletedDocsCount)

\* findAndDelete: forEach with properties = [] and limit = batchSize, from
\* the batch that options (with its cursor) designates on.  The outcome is
\* the store content, the error raised and the count kept so far.
RECURSIVE findAndDeleteFrom(_, _, _, _)

\* After the callback ran on the items of a batch, with outcome d: the
\* cursor is computed from the last item and the next batch is read.
forEachCursor(collection, options, lastItem, d) ==
  IF ~d.ok
    THEN [store |-> d.store, error |-> "IndexEntryMissing",
          count |-> d.deletedDocsCount]
  ELSE IF makeOrderKeyThrows(lastItem.document, options.order)
    THEN [store |-> d.store, error |-> "TypeError",
          count |-> d.deletedDocsCount]
  ELSE findAndDeleteFrom(
         d.store, collection,
         [options EXCEPT
            !.startAfter = Bound(makeOrderKey(lastItem.key,
                                              lastItem.document, << >>)),
            !.start = NoBound],
         d.deletedDocsCount)

\* One batch, r being what find returned for it.
forEachBatch(s, collection, options, deletedDocsCount, r) ==
  IF ~r.ok
    THEN [store |-> s, error |-> "IndexNotFound", count |-> deletedDocsCount]
  ELSE IF Len(r.items) = 0
    THEN [store |-> s, error |-> "", count |-> deletedDocsCount]
  ELSE forEachCursor(collection, options, Last(r.items),
                     deleteItems(s, collection, r.items, 1, deletedDocsCount))

findAndDeleteFrom(s, collection, options, deletedDocsCount) ==
  forEachBatch(s, collection, options, deletedDocsCount,
               find(s, collection, options))

\* batchSize 0 stands for an options object without batchSize.
findAndDelete(s, collection, options, batchSize) ==
  findAndDeleteFrom(
    s, collection,
    [options EXCEPT !.properties = Properties(<< >>),
                    !.limit = IF batchSize = 0 THEN DefaultBatchSize
                              ELSE batchSize],
    0)

\* The call returns the count r.count or throws r.error; the deletions made
\* before an error stay, each one was a transaction of its own.
FindAndDeleteReturns(options, batchSize, r) ==
  /\ kv' = r.store
  /\ out' = [NoOut EXCEPT
               !.op = "findAndDelete",
               !.args = [NoArgs EXCEPT !.options = options,
                                       !.batchSize = batchSize],
               !.error = r.error,
               !.count = IF r.error = "" THEN r.count ELSE 0]
  /\ UNCHANGED <<tx, fe, inst, sel>>

\* findAndDelete(collection, options)
FindAndDeleteCall(collection, options, batchSize) ==
  /\ Idle /\ out.op = "none"
  /\ FindAndDeleteReturns(options, batchSize,
                          findAndDelete(kv, collection, options, batchSize))

\* find(collection, options): the items returned, or the error of the
\* index selection.
FindCall(collection, options) ==
  /\ Idle /\ out.op = "none"
  /\ out' = [NoOut EXCEPT
               !.op = "find",
               !.args = [NoArgs EXCEPT !.options = options],
               !.error = IF find(kv, collection, options).ok THEN ""
                         ELSE "IndexNotFound",
               !.items = find(kv, collection, options).items]
  /\ UNCHANGED <<kv, tx, fe, inst, sel>>

\* The caller goes on after the call returned or threw.
OutReturn ==
  /\ out.op # "none"
  /\ out' = NoOut
  /\ UNCHANGED <<kv, tx, fe, inst, sel>>

(***************************************************************************)
(* The schema engine.  Every process holds one DocumentStore instance on   *)
(* the same key-value store and store name.  An action is one operation of *)
(* the key-value store (a transaction of it counts as one) together with   *)
(* the code that runs up to the next one.                                  *)
(***************************************************************************)
MaxProcs == 2        \* processes
MaxInstances == 3    \* store instances constructed in all, one per process at a time
MaxInstanceKey == 1  \* the instances write the documents 1..MaxInstanceKey

Procs == 1..MaxProcs
InstanceKeys == 1..MaxInstanceKey

\* The collections the instances declare.
PeopleA == Collection("People", <<SimpleIndex(<<"a">>)>>)
PeopleAP ==
  Collection("People", <<Index(<<Simple("a")>>, TRUE, <<"a">>, undefined)>>)
PeopleBare == Collection("People", << >>)
Tags == Collection("Tags", <<SimpleIndex(<<"a">>)>>)

\* The declared schemas (options.collections of the constructor).
Schemas == {<<PeopleA>>, <<PeopleAP, Tags>>, <<PeopleBare>>}

NoRecord ==
  [name |-> "", version |-> VERSION, isLocked |-> FALSE, collections |-> << >>]

HasRecord(s) == KVHas(s, <<storeName>>)

\* _loadDocumentStoreRecord / _saveDocumentStoreRecord
loadDocumentStoreRecord(s) == s[<<storeName>>]

saveDocumentStoreRecord(s, record) == KVPut(s, <<storeName>>, record)

NoRemoval == [pc |-> "idle", rec |-> NoRecord, names |-> << >>, i |-> 1]

\* No put or delete of the instance is between two operations of its
\* transaction.  snap is the store content when the transaction began, view
\* what the transaction reads (snap and its own writes), old the document
\* read at the start.
NoWrite ==
  [pc |-> "none", kind |-> "put", key |-> 0, doc |-> None, old |-> None,
   snap |-> << >>, view |-> << >>]

\* new DocumentStore({name, url, collections}); bodies counts the bodies of
\* initializeDocumentStore in execution, waiting the calls that returned at
\* once since the last body started.
NewInstance(schema, gen) ==
  [schema |-> schema, gen |-> gen, pc |-> "new",
   hasBeenInitialized |-> FALSE, isInitializing |-> FALSE,
   migrationDidStartEventHasBeenEmitted |-> FALSE,
   rec |-> NoRecord, sub |-> "start", ii |-> 1,
   events |-> {}, log |-> << >>, thrown |-> "", error |-> "",
   bodies |-> 0, waiting |-> 0, w |-> NoWrite,
   acquired |-> FALSE, identical |-> FALSE, lastCall |-> "none",
   rc |-> NoRemoval]

\* An instance whose initialisation has created the record.
ReadyInstance(schema) ==
  [NewInstance(schema, 1) EXCEPT
     !.pc = "ready", !.hasBeenInitialized = TRUE,
     !.events = {"didCreate", "didInitialize"}, !.lastCall = "ran"]

\* No call is in progress on the instance.
InstanceIdle(i) == i.pc \in {"new", "ready", "failed"} /\ i.rc.pc = "idle"

FirstPos(S) == IF S = {} THEN 0 ELSE CHOOSE j \in S : \A x \in S : j <= x

\* record.collections.find(collec => collec.name === name)
CollPos(collections, name) ==
  FirstPos({j \in DOMAIN collections : collections[j].name = name})

\* indexes.find(index => isEqual(index.keys, keys))
IdxPos(indexes, keys) ==
  FirstPos({j \in DOMAIN indexes : indexes[j].keys = keys})

RemoveAt(s, j) == [x \in 1..(Len(s) - 1) |-> IF x < j THEN s[x] ELSE s[x + 1]]

\* Variant: the comparison of the persisted and the declared index never
\* finds them equal.
IndexChangedAlways(existingIndex, index) == TRUE

\* Variant: only the projections are compared, the versions are not.
IndexChangedByProjection(existingIndex, index) ==
  ~(/\ existingIndex.hasProjection = index.hasProjection
    /\ existingIndex.projection = index.projection)

\* !(isEqual(existingIndex.projection, index.projection) &&
\*   existingIndex.version === index.version)
IndexChanged(existingIndex, index) ==
  ~(/\ existingIndex.hasProjection = index.hasProjection
    /\ existingIndex.projection = index.projection
    /\ existingIndex.version = index.version)

NoWork == [kind |-> "none", ci |-> 0, xi |-> 0, di |-> 0, ei |-> 0]

\* What migrateDocumentStore has to do next for a declared collection, given
\* its in-memory record: the loops over the declared indexes and then over
\* the persisted ones leave behind them nothing to do, so the next item is
\* the first one in loop order that calls for work.
CollectionWork(rec, schema, ci) ==
  LET collection == schema[ci]
      xi == CollPos(rec.collections, collection.name)
      existing == rec.collections[xi].indexes
      declared == collection.indexes
      todo == {d \in DOMAIN declared :
                 LET e == IdxPos(existing, IndexKeys(declared[d]))
                 IN  e = 0 \/ IndexChanged(existing[e], declared[d])}
      gone == {e \in DOMAIN existing :
                 \A d \in DOMAIN declared :
                   IndexKeys(declared[d]) # existing[e].keys}
  IN  IF xi = 0 THEN [NoWork EXCEPT !.kind = "addCollection", !.ci = ci]
      ELSE IF rec.collections[xi].hasBeenRemoved
        THEN [NoWork EXCEPT !.kind = "throw", !.ci = ci, !.xi = xi]
      ELSE IF todo # {}
        THEN LET d == FirstPos(todo)
                 e == IdxPos(existing, IndexKeys(declared[d]))
             IN  [kind |-> IF e = 0 THEN "addIndex" ELSE "updateIndex",
                  ci |-> ci, xi |-> xi, di |-> d, ei |-> e]
      ELSE IF gone # {}
        THEN [kind |-> "removeIndex", ci |-> ci, xi |-> xi, di |-> 0,
              ei |-> FirstPos(gone)]
      ELSE NoWork

\* The next item of migrateDocumentStore: the declared collections in
\* order, then the persisted collections that are no longer declared.
Work(rec, schema) ==
  LET busy == {ci \in DOMAIN schema :
                 CollectionWork(rec, schema, ci).kind # "none"}
      removed == {xi \in DOMAIN rec.collections :
                    /\ ~rec.collections[xi].hasBeenRemoved
                    /\ \A ci \in DOMAIN schema :
                         schema[ci].name # rec.collections[xi].name}
  IN  IF busy # {} THEN CollectionWork(rec, schema, FirstPos(busy))
      ELSE IF removed # {}
        THEN [NoWork EXCEPT !.kind = "removeCollection",
                            !.xi = FirstPos(removed)]
      ELSE NoWork

\* Variant: a failure between lock and unlock is re-raised at once.
afterFailureRethrow == "failed"

\* try { upgrade; verify; migrate } finally { unlockDocumentStore() }
afterFailure == "unlock"

\* Variant: the call ends as a success whatever was thrown.
CompleteAnyway(i) ==
  [i EXCEPT !.pc = "ready", !.hasBeenInitialized = TRUE,
            !.isInitializing = FALSE, !.events = @ \cup {"didInitialize"},
            !.rec = NoRecord, !.sub = "start", !.ii = 1, !.acquired = FALSE,
            !.bodies = @ - 1]

\* initializeDocumentStore ends: with hasBeenInitialized and didInitialize,
\* or by re-raising the error; isInitializing is reset either way.
Complete(i) ==
  IF i.thrown = ""
    THEN [i EXCEPT !.pc = "ready", !.hasBeenInitialized = TRUE,
                   !.isInitializing = FALSE,
                   !.events = @ \cup {"didInitialize"},
                   !.rec = NoRecord, !.sub = "start", !.ii = 1,
                   !.acquired = FALSE, !.bodies = @ - 1]
    ELSE [i EXCEPT !.pc = "failed", !.isInitializing = FALSE,
                   !.error = i.thrown,
                   !.rec = NoRecord, !.sub = "start", !.ii = 1,
                   !.acquired = FALSE, !.bodies = @ - 1]

\* Where the call goes when upgrade or migrate is over.
Leave(i) ==
  IF i.thrown = "" \/ afterFailure = "unlock"
    THEN [i EXCEPT !.pc = "unlock", !.sub = "start", !.ii = 1]
    ELSE Complete(i)

\* _emitMigrationDidStart; log is the sequence of the migration events that
\* the current call has emitted.
emitMigrationDidStart(i) ==
  IF i.migrationDidStartEventHasBeenEmitted THEN i
  ELSE [i EXCEPT !.events = @ \cup {"willMigrate"},
                 !.log = Append(@, "willMigrate"),
                 !.migrationDidStartEventHasBeenEmitted = TRUE]

\* Variant: didMigrate is emitted only when the migration raised no error.
emitMigrationDidStopUnlessThrown(i) ==
  IF i.migrationDidStartEventHasBeenEmitted /\ i.thrown = ""
    THEN [i EXCEPT !.events = @ \cup {"didMigrate"},
                   !.log = Append(@, "didMigrate"),
                   !.migrationDidStartEventHasBeenEmitted = FALSE]
    ELSE i

\* _emitMigrationDidStop
emitMigrationDidStop(i) ==
  IF i.migrationDidStartEventHasBeenEmitted
    THEN [i EXCEPT !.events = @ \cup {"didMigrate"},
                   !.log = Append(@, "didMigrate"),
                   !.migrationDidStartEventHasBeenEmitted = FALSE]
    ELSE i

\* migrateDocumentStore between two operations of the key-value store: the
\* loops run on to the next item, to the error of a removed collection that
\* is declared again, or to the end.
Settle(i) ==
  LET w == Work(i.rec, i.schema)
  IN  IF i.sub # "start" \/ i.ii # 1 THEN i
      ELSE IF w.kind = "none" THEN Leave(emitMigrationDidStop(i))
      ELSE IF w.kind = "throw"
        THEN Leave(emitMigrationDidStop(
                     [i EXCEPT !.thrown = "ReAddNotSupported"]))
      ELSE emitMigrationDidStart(i)

\* forEach(collection, {}, (doc, key) => updateIndex(collection, key,
\* undefined, doc, index)) from the documents at position n on.
RECURSIVE rebuildFrom(_, _, _, _, _)
rebuildFrom(s, collection, index, items, n) ==
  IF n > Len(items) THEN Ok(s)
  ELSE LET r == updateIndex(s, collection, items[n].key, None,
                            Some(items[n].document.doc), index)
       IN  IF r.ok THEN rebuildFrom(r.store, collection, index, items, n + 1)
           ELSE r

\* Variant: no entry is built for the documents already stored.
rebuildIndexSkips(s, collection, index) == Ok(s)

rebuildIndex(s, collection, index) ==
  rebuildFrom(s, collection, index,
              find(s, collection, FindOptions(NoQuery, NoOrder)).items, 1)

\* The prefix of the entries of an index.
indexPrefix(collectionName, keys) ==
  <<storeName, makeIndexCollectionName(collectionName, makeIndexName(keys))>>

\* Variant: the entries of the index are left in the store.
removeIndexKeepsEntries(s, collectionName, keys) == s

\* _removeIndex: findAndDelete({prefix})
removeIndex(s, collectionName, keys) ==
  KVFindAndDelete(s, indexPrefix(collectionName, keys))

\* The outcome of an operation of migrateDocumentStore by the instance i:
\* the new store content and the instance.  Here the record is saved and
\* the item is done.
Saved(s, i, record) ==
  [store |-> saveDocumentStoreRecord(s, record),
   i |-> [i EXCEPT !.rec = record, !.sub = "start", !.ii = 1]]

\* The index was rebuilt with result r, or the rebuild raised an error.
Rebuilt(s, i, r, fails) ==
  IF fails \/ ~r.ok
    THEN [store |-> s,
          i |-> [i EXCEPT !.thrown = "IndexRebuildFailed", !.sub = "start"]]
    ELSE [store |-> r.store, i |-> [i EXCEPT !.sub = "save"]]

\* record.collections.push(collection.toJSON()); save
addCollection(s, i, collection) ==
  Saved(s, i, [i.rec EXCEPT !.collections =
                 Append(@, CollectionToJSON(collection))])

\* _addIndex; then existingCollection.indexes.push(index.toJSON()); save
addIndex(s, i, w, collection, index, fails) ==
  IF i.sub = "start"
    THEN Rebuilt(s, i, rebuildIndex(s, collection, index), fails)
    ELSE Saved(s, i, [i.rec EXCEPT !.collections[w.xi].indexes =
                        Append(@, IndexToJSON(index))])

\* _updateIndex (findAndDelete, then the rebuild); then the projection and
\* the version of the persisted index are set; save
changeIndex(s, i, w, collection, index, fails) ==
  IF i.sub = "start"
    THEN [store |-> removeIndex(s, collection.name, IndexKeys(index)),
          i |-> [i EXCEPT !.sub = "rebuild"]]
  ELSE IF i.sub = "rebuild"
    THEN Rebuilt(s, i, rebuildIndex(s, collection, index), fails)
  ELSE Saved(s, i, [i.rec EXCEPT !.collections[w.xi].indexes[w.ei] =
                      IndexToJSON(index)])

\* _removeIndex; then existingCollection.indexes.splice(i, 1); save
dropIndex(s, i, w, existing) ==
  IF i.sub = "start"
    THEN [store |-> removeIndex(s, existing.name, existing.indexes[w.ei].keys),
          i |-> [i EXCEPT !.sub = "save"]]
    ELSE Saved(s, i, [i.rec EXCEPT !.collections[w.xi].indexes =
                        RemoveAt(@, w.ei)])

\* Variant: the collection is dropped from the record instead of marked.
markCollectionDropped(s, i, w, existing) ==
  IF i.ii <= Len(existing.indexes)
    THEN [store |-> removeIndex(s, existing.name, existing.indexes[i.ii].keys),
          i |-> [i EXCEPT !.ii = @ + 1]]
    ELSE Saved(s, i, [i.rec EXCEPT !.collections = RemoveAt(@, w.xi)])

\* _removeIndex for every persisted index; then indexes.length = 0,
\* hasBeenRemoved = true; save
markCollection(s, i, w, existing) ==
  IF i.ii <= Len(existing.indexes)
    THEN [store |-> removeIndex(s, existing.name, existing.indexes[i.ii].keys),
          i |-> [i EXCEPT !.ii = @ + 1]]
    ELSE Saved(s, i, [i.rec EXCEPT !.collections[w.xi].indexes = << >>,
                                   !.collections[w.xi].hasBeenRemoved = TRUE])

\* One operation of migrateDocumentStore on the item w; fails tells whether
\* an index rebuild raises an error.
MigrateWork(s, i, w, fails) ==
  CASE w.kind = "addCollection" -> addCollection(s, i, i.schema[w.ci])
    [] w.kind = "addIndex" ->
         addIndex(s, i, w, i.schema[w.ci], i.schema[w.ci].indexes[w.di], fails)
    [] w.kind = "updateIndex" ->
         changeIndex(s, i, w, i.schema[w.ci], i.schema[w.ci].indexes[w.di],
                     fails)
    [] w.kind = "removeIndex" -> dropIndex(s, i, w, i.rec.collections[w.xi])
    [] w.kind = "removeCollection" ->
         markCollection(s, i, w, i.rec.collections[w.xi])

MigrateOp(s, i, fails) == MigrateWork(s, i, Work(i.rec, i.schema), fails)

\* The declared schema is the persisted one: the collections of the record
\* that are not marked as removed are the declared ones, with the same
\* indexes.
DeclaredAs(rec, schema) ==
  {[name |-> c.name, indexes |-> Range(c.indexes)] :
     c \in {x \in Range(rec.collections) : ~x.hasBeenRemoved}}
    = {[name |-> CollectionToJSON(c).name,
        indexes |-> Range(CollectionToJSON(c).indexes)] : c \in Range(schema)}

\* Variant: only hasBeenInitialized makes a call return at once.
returnsAtOnceInitialized(i) == i.hasBeenInitialized

\* if (this.hasBeenInitialized) return; if (this.isInitializing) return;
returnsAtOnce(i) == i.hasBeenInitialized \/ i.isInitializing

\* Variant: the record is created whatever the store holds.
recordIsMissingAlways(s) == TRUE

\* record = _loadDocumentStoreRecord(storeTransaction, false); if (!record)
recordIsMissing(s) == ~HasRecord(s)

\* initializeDocumentStore up to the end of createDocumentStoreIfDoesNotExist
\* (one transaction of the key-value store).
InitializeStart(p) ==
  LET i == inst[p]
      j == [i EXCEPT !.isInitializing = TRUE, !.lastCall = "ran",
                     !.events = {}, !.log = << >>, !.thrown = "",
                     !.error = "", !.bodies = @ + 1, !.waiting = 0,
                     !.identical = FALSE]
  IN  /\ InstanceIdle(i)
      /\ Idle
      /\ IF returnsAtOnce(i)
           THEN /\ inst' = [inst EXCEPT ![p].lastCall = "returned"]
                /\ UNCHANGED kv
         ELSE IF recordIsMissing(kv)
           THEN /\ kv' = saveDocumentStoreRecord(kv, NewRecord(i.schema))
                /\ inst' = [inst EXCEPT ![p] =
                              Complete([j EXCEPT !.events = {"didCreate"}])]
         ELSE /\ inst' = [inst EXCEPT ![p] = [j EXCEPT !.pc = "lock"]]
              /\ UNCHANGED kv

\* A call of initializeDocumentStore on the root.
InitializeDocumentStore(p) ==
  /\ InitializeStart(p)
  /\ UNCHANGED <<tx, fe, sel, out>>

\* Variant: the lock is taken whatever isLocked says.
lockIsFreeAlways(record) == TRUE

\* if (!record.isLocked)
lockIsFree(record) == ~record.isLocked

\* One round of lockDocumentStore: a transaction that reads the record and
\* sets isLocked if it is not set; otherwise the call sleeps and retries.
LockDocumentStore(p) ==
  LET i == inst[p]
      record == loadDocumentStoreRecord(kv)
  IN  /\ i.pc = "lock"
      /\ IF ~HasRecord(kv)
           THEN /\ inst' = [inst EXCEPT ![p] =
                              Complete([i EXCEPT !.thrown = "RecordMissing"])]
                /\ UNCHANGED kv
         ELSE IF lockIsFree(record)
           THEN /\ kv' = saveDocumentStoreRecord(
                           kv, [record EXCEPT !.isLocked = TRUE])
                /\ inst' = [inst EXCEPT ![p].pc = "upgrade",
                                        ![p].acquired = TRUE]
         ELSE UNCHANGED <<kv, inst>>
      /\ UNCHANGED <<tx, fe, sel, out>>

\* Variant: a record older than the code is stamped with the code's version.
upgradeRefusalOnlyNewer(version) ==
  IF version > VERSION THEN "CannotDowngrade" ELSE ""

\* The throw statements of upgradeDocumentStore: 'Cannot downgrade the
\* document store', 'Cannot upgrade the document store to version 3
\* automatically'.
upgradeRefusal(version) ==
  IF version > VERSION THEN "CannotDowngrade"
  ELSE IF version < 3 THEN "CannotUpgrade"
  ELSE ""

\* upgradeDocumentStore (and verifyDocumentStore, which does nothing).
UpgradeDocumentStore(p) ==
  LET i == inst[p]
      record == loadDocumentStoreRecord(kv)
      version == record.version
      willUpgrade == [i EXCEPT !.events = @ \cup {"willUpgrade"}]
  IN  /\ i.pc = "upgrade"
      /\ HasRecord(kv)
      /\ IF version = VERSION
           THEN /\ inst' = [inst EXCEPT ![p].pc = "migrate"]
                /\ UNCHANGED kv
         ELSE IF upgradeRefusal(version) # ""
           THEN /\ inst' = [inst EXCEPT ![p] =
                              Leave([(IF version > VERSION THEN i
                                      ELSE willUpgrade) EXCEPT
                                       !.thrown = upgradeRefusal(version)])]
                /\ UNCHANGED kv
         ELSE /\ kv' = saveDocumentStoreRecord(
                         kv, [record EXCEPT !.version = VERSION])
              /\ inst' = [inst EXCEPT ![p] =
                            [willUpgrade EXCEPT
                               !.events = @ \cup {"didUpgrade"},
                               !.pc = "migrate"]]
      /\ UNCHANGED <<tx, fe, sel, out>>

\* migrateDocumentStore loads the record and runs to its first operation.
MigrateLoad(p) ==
  LET i == inst[p]
      record == loadDocumentStoreRecord(kv)
  IN  /\ i.pc = "migrate"
      /\ HasRecord(kv)
      /\ inst' = [inst EXCEPT ![p] =
                    Settle([i EXCEPT !.pc = "migrating", !.rec = record,
                                     !.identical = DeclaredAs(record, i.schema)])]
      /\ UNCHANGED <<kv, tx, fe, sel, out>>

\* The operation gave r: the loops go on, or the error ends the migration.
MigrateOn(p, r) ==
  /\ kv' = r.store
  /\ inst' = [inst EXCEPT ![p] =
                IF r.i.thrown # "" THEN Leave(emitMigrationDidStop(r.i))
                ELSE Settle(r.i)]

\* One operation of migrateDocumentStore and the code up to the next one.
MigrateStep(p) ==
  /\ inst[p].pc = "migrating"
  /\ \E fails \in BOOLEAN : MigrateOn(p, MigrateOp(kv, inst[p], fails))
  /\ UNCHANGED <<tx, fe, sel, out>>

\* unlockDocumentStore: load the record ...
UnlockLoad(p) ==
  /\ inst[p].pc = "unlock"
  /\ HasRecord(kv)
  /\ inst' = [inst EXCEPT ![p].pc = "unlocking",
                          ![p].rec = loadDocumentStoreRecord(kv)]
  /\ UNCHANGED <<kv, tx, fe, sel, out>>

\* ... and save it with isLocked = false; initializeDocumentStore ends.
UnlockSave(p) ==
  /\ inst[p].pc = "unlocking"
  /\ kv' = saveDocumentStoreRecord(kv, [inst[p].rec EXCEPT !.isLocked = FALSE])
  /\ inst' = [inst EXCEPT ![p] = Complete(inst[p])]
  /\ UNCHANGED <<tx, fe, sel, out>>

\* removeCollectionsMarkedAsRemoved between two operations: the loop runs on
\* to the next collection marked as removed, or to its end.
RECURSIVE SettleRemoval(_)
SettleRemoval(rc) ==
  IF rc.i > Len(rc.names) THEN NoRemoval
  ELSE IF rc.rec.collections[CollPos(rc.rec.collections, rc.names[rc.i])]
            .hasBeenRemoved
    THEN rc
  ELSE SettleRemoval([rc EXCEPT !.i = @ + 1])

\* removeCollectionsMarkedAsRemoved loads the record.
RemoveLoad(p) ==
  LET record == loadDocumentStoreRecord(kv)
  IN  /\ InstanceIdle(inst[p])
      /\ Idle
      /\ HasRecord(kv)
      /\ inst' = [inst EXCEPT ![p].rc =
                    SettleRemoval(
                      [pc |-> "remove", rec |-> record, i |-> 1,
                       names |-> [x \in DOMAIN record.collections |->
                                    record.collections[x].name]])]
      /\ UNCHANGED <<kv, tx, fe, sel, out>>

\* _removeCollection: findAndDelete of the documents of the collection.
RemoveCollection(p) ==
  LET rc == inst[p].rc
  IN  /\ rc.pc = "remove"
      /\ kv' = KVFindAndDelete(kv, <<storeName, rc.names[rc.i]>>)
      /\ inst' = [inst EXCEPT ![p].rc.pc = "save"]
      /\ UNCHANGED <<tx, fe, sel, out>>

\* pull(record.collections, collection) and save the record.
RemoveSave(p) ==
  LET rc == inst[p].rc
      record == [rc.rec EXCEPT !.collections =
                   RemoveAt(@, CollPos(@, rc.names[rc.i]))]
  IN  /\ rc.pc = "save"
      /\ kv' = saveDocumentStoreRecord(kv, record)
      /\ inst' = [inst EXCEPT ![p].rc =
                    SettleRemoval([rc EXCEPT !.pc = "remove", !.rec = record,
                                             !.i = @ + 1])]
      /\ UNCHANGED <<tx, fe, sel, out>>

RECURSIVE SumGen(_)
SumGen(n) == IF n = 0 THEN 0 ELSE inst[n].gen + SumGen(n - 1)

\* The number of instances constructed so far.
Constructed == SumGen(MaxProcs)

\* The process drops its instance and constructs one with a schema.
OpenInstance(p, schema) ==
  /\ InstanceIdle(inst[p])
  /\ inst[p].pc # "new"
  /\ Constructed < MaxInstances
  /\ inst' = [inst EXCEPT ![p] = NewInstance(schema, inst[p].gen + 1)]
  /\ UNCHANGED <<kv, tx, fe, sel, out>>

\* put and delete by an initialised instance on a collection it declares
\* (the first one, People, in the specifications below).
InstancePut(p, ci, key, doc) ==
  /\ inst[p].pc = "ready" /\ inst[p].rc.pc = "idle"
  /\ ci \in DOMAIN inst[p].schema
  /\ Put(inst[p].schema[ci], key, doc, TRUE, FALSE)

InstanceDelete(p, ci, key) ==
  /\ inst[p].pc = "ready" /\ inst[p].rc.pc = "idle"
  /\ ci \in DOMAIN inst[p].schema
  /\ Delete(inst[p].schema[ci], key, FALSE)

(***************************************************************************)
(* The document operations of one initialised store.                       *)
(***************************************************************************)
\* The (query, order) pairs given to forEach.
ForEachInputs ==
  {<<NoQuery, NoOrder>>, <<NoQuery, OrderArray(<<"a">>)>>,
   <<NoQuery, OrderString("a")>>, <<NoQuery, OrderArray(<<"rev">>)>>,
   <<NoQuery, OrderArray(<<"a", "n.c">>)>>, <<NoQuery, OrderArray(<<"zzz">>)>>}
    \cup {<<[k \in {"a"} |-> v], NoOrder>> : v \in Vals}
    \cup {<<[k \in {"a"} |-> v], OrderArray(<<"n.c">>)>> : v \in Vals}
    \cup {<<[k \in {"n.c"} |-> v], OrderArray(<<"a">>)>> : v \in Vals}

InitData ==
  /\ kv = [k \in {<<storeName>>} |-> NewRecord(<<People, Notes>>)]
  /\ tx = NoTx
  /\ fe = NoForEach
  /\ inst = [p \in Procs |-> ReadyInstance(<<People, Notes>>)]
  /\ sel = NoSel
  /\ out = NoOut

NextData ==
  \/ \E k \in DocKeys, d \in Docs, cim, eie \in BOOLEAN :
       Put(People, k, d, cim, eie)
  \/ \E k \in DocKeys, eim \in BOOLEAN : Delete(People, k, eim)
  \/ \E in \in ForEachInputs, b \in 0..MaxBatch :
       FeStart(People, in[1], in[2], b)
  \/ FeBatch
  \/ FeReturn

SpecData == InitData /\ [][NextData]_vars

(***************************************************************************)
(* Transactions next to root operations, on two collections.               *)
(***************************************************************************)
\* The documents written here hold property a only.
FlatDocs == {d \in Docs : d.n.c = undefined}

\* Notes holds one document key.
KeysOf(collection) == IF collection = Notes THEN {1} ELSE DocKeys

NextTx ==
  \/ \E c \in Collections, d \in FlatDocs, cim, eie \in BOOLEAN :
       \E k \in KeysOf(c) : Put(c, k, d, cim, eie)
  \/ \E c \in Collections, eim \in BOOLEAN :
       \E k \in KeysOf(c) : Delete(c, k, eim)
  \/ TxBegin
  \/ \E c \in Collections, d \in FlatDocs, cim, eie \in BOOLEAN :
       \E k \in KeysOf(c) : TxPut(c, k, d, cim, eie)
  \/ \E c \in Collections, eim \in BOOLEAN :
       \E k \in KeysOf(c) : TxDelete(c, k, eim)
  \/ TxCommit
  \/ TxAbort
  \/ TxReturn

SpecTx == InitData /\ [][NextTx]_vars

(***************************************************************************)
(* The operations of a transaction handle, nested transaction(fn) calls    *)
(* included.                                                               *)
(***************************************************************************)
NextHandle ==
  \/ \E d \in FlatDocs, k \in DocKeys : Put(People, k, d, TRUE, FALSE)
  \/ TxBegin
  \/ \E c \in Collections, d \in FlatDocs, cim, eie \in BOOLEAN :
       \E k \in KeysOf(c) : TxPut(c, k, d, cim, eie)
  \/ \E c \in Collections, eim \in BOOLEAN :
       \E k \in KeysOf(c) : TxDelete(c, k, eim)
  \/ \E c \in Collections : \E k \in KeysOf(c) : TxGet(c, k)
  \/ TxNest
  \/ TxUnnest
  \/ TxCommit
  \/ TxAbort
  \/ TxReturn

SpecHandle == InitData /\ [][NextHandle]_vars

(***************************************************************************)
(* The observed operations on one initialised store.                       *)
(***************************************************************************)
\* The (query, order) pairs given to count and findAndDelete.
OpsInputs ==
  ForEachInputs
    \cup {<<[k \in {"a", "n.c"} |-> IF k = "a" THEN v ELSE 1], NoOrder>> :
            v \in Vals}

\* The range bounds given to count: none, one of the four, start and
\* endBefore together.
OpsBounds ==
  {[start |-> NoBound, startAfter |-> NoBound, end |-> NoBound,
    endBefore |-> NoBound]}
    \cup {[start |-> Bound(<<v>>), startAfter |-> NoBound, end |-> NoBound,
           endBefore |-> NoBound] : v \in Vals}
    \cup {[start |-> NoBound, startAfter |-> Bound(<<v>>), end |-> NoBound,
           endBefore |-> NoBound] : v \in Vals}
    \cup {[start |-> NoBound, startAfter |-> NoBound, end |-> Bound(<<v>>),
           endBefore |-> NoBound] : v \in Vals}
    \cup {[start |-> NoBound, startAfter |-> NoBound, end |-> NoBound,
           endBefore |-> Bound(<<v>>)] : v \in Vals}
    \cup {[start |-> Bound(<<1>>), startAfter |-> NoBound, end |-> NoBound,
           endBefore |-> Bound(<<MaxVal>>)]}

BoundedOptions(in, b) ==
  [FindOptions(in[1], in[2]) EXCEPT
     !.start = b.start, !.startAfter = b.startAfter, !.end = b.end,
     !.endBefore = b.endBefore]

NextOps ==
  \/ \E k \in DocKeys, d \in Docs, cim, eie \in Flags :
       PutCall(People, k, d, cim, eie)
  \/ \E k \in DocKeys, eim \in Flags : DeleteCall(People, k, eim)
  \/ \E in \in OpsInputs, b \in OpsBounds :
       /\ out.op = "none"
       /\ CountCall(People, BoundedOptions(in, b))
  \/ \E in \in OpsInputs, batchSize \in 0..MaxBatch :
       /\ out.op = "none"
       /\ FindAndDeleteCall(People, FindOptions(in[1], in[2]), batchSize)
  \/ OutReturn

SpecOps == InitData /\ [][NextOps]_vars

(***************************************************************************)
(* find on one initialised store, between puts and deletes.                *)
(***************************************************************************)
NextFind ==
  \/ \E k \in DocKeys, d \in Docs :
       out.op = "none" /\ Put(People, k, d, TRUE, FALSE)
  \/ \E k \in DocKeys : out.op = "none" /\ Delete(People, k, FALSE)
  \/ \E in \in OpsInputs, b \in OpsBounds, reverse \in BOOLEAN :
       /\ out.op = "none"
       /\ FindCall(People, [BoundedOptions(in, b) EXCEPT !.reverse = reverse])
  \/ OutReturn

SpecFind == InitData /\ [][NextFind]_vars

(***************************************************************************)
(* Initialisation by several processes: the store starts empty, or with a  *)
(* record written by another version of the package.                       *)
(***************************************************************************)
ForeignRecord(version) == [NewRecord(<<PeopleA>>) EXCEPT !.version = version]

InitialStores ==
  {<< >>}
    \cup {[k \in {<<storeName>>} |-> ForeignRecord(v)] :
            v \in {VERSION - 1, VERSION + 1}}

InitSchema ==
  /\ kv \in InitialStores
  /\ tx = NoTx
  /\ fe = NoForEach
  /\ inst \in [Procs -> {NewInstance(s, 1) : s \in Schemas}]
  /\ sel = NoSel
  /\ out = NoOut

NextInit ==
  \/ \E p \in Procs : InitializeDocumentStore(p)
  \/ \E p \in Procs : LockDocumentStore(p)
  \/ \E p \in Procs : UpgradeDocumentStore(p)
  \/ \E p \in Procs : MigrateLoad(p)
  \/ \E p \in Procs : MigrateStep(p)
  \/ \E p \in Procs : UnlockLoad(p)
  \/ \E p \in Procs : UnlockSave(p)
  \/ \E p \in Procs, s \in Schemas : OpenInstance(p, s)
  \/ \E p \in Procs, k \in InstanceKeys, d \in FlatDocs :
       InstancePut(p, 1, k, d)
  \/ \E p \in Procs, k \in InstanceKeys : InstanceDelete(p, 1, k)

SpecInit == InitSchema /\ [][NextInit]_vars

\* Fair scheduling of the initialisers.  A call that has the lock goes on:
\* each of its steps is taken when it stays possible.  A call in the retry
\* loop of lockDocumentStore tries again every five seconds for ever: it
\* takes the lock if its attempts find it free again and again.  Nothing is
\* required of the callers (initialising, writing, constructing instances).
\* The steps of migrateDocumentStore are possible whenever the call is at
\* them, which is written out in place of ENABLED.
MigrateFair(p) ==
  \/ []<>(inst[p].pc \notin {"migrate", "migrating"})
  \/ []<><<MigrateLoad(p) \/ MigrateStep(p)>>_vars

FairInit ==
  \A p \in Procs :
    /\ SF_vars(LockDocumentStore(p))
    /\ WF_vars(UpgradeDocumentStore(p))
    /\ MigrateFair(p)
    /\ WF_vars(UnlockLoad(p))
    /\ WF_vars(UnlockSave(p))

\* The initialisers alone: the documents play no part in the lock.
NextLock ==
  \/ \E p \in Procs : InitializeDocumentStore(p)
  \/ \E p \in Procs : LockDocumentStore(p)
  \/ \E p \in Procs : UpgradeDocumentStore(p)
  \/ \E p \in Procs : MigrateLoad(p)
  \/ \E p \in Procs : MigrateStep(p)
  \/ \E p \in Procs : UnlockLoad(p)
  \/ \E p \in Procs : UnlockSave(p)
  \/ \E p \in Procs, s \in Schemas : OpenInstance(p, s)

SpecLock == InitSchema /\ [][NextLock]_vars /\ FairInit

\* The same with removeCollectionsMarkedAsRemoved.
NextSchema ==
  \/ NextInit
  \/ \E p \in Procs : RemoveLoad(p)
  \/ \E p \in Procs : RemoveCollection(p)
  \/ \E p \in Procs : RemoveSave(p)

SpecSchema == InitSchema /\ [][NextSchema]_vars

(***************************************************************************)
(* getStatistics and destroyAll.                                           *)
(***************************************************************************)
RECURSIVE indexesCount(_)
indexesCount(collections) ==
  IF Len(collections) = 0 THEN 0
  ELSE Len(collections[1].indexes) + indexesCount(Tail(collections))

\* getStatistics on a store content: the record is scanned and the key-value
\* store counts the pairs under the store prefix.
getStatistics(s) ==
  LET collections == IF HasRecord(s) THEN loadDocumentStoreRecord(s).collections
                     ELSE << >>
      removed == {x \in DOMAIN collections : collections[x].hasBeenRemoved}
  IN  [collectionsCount |-> Len(collections) - Cardinality(removed),
       removedCollectionsCount |-> Cardinality(removed),
       indexesCount |-> indexesCount(collections),
       pairsCount |-> KVCount(s, ScanOptions(<<storeName>>))]

\* destroyAll on the root facade: the instance forgets its initialisation
\* and every pair under the store prefix is deleted.
DestroyAll(p) ==
  /\ InstanceIdle(inst[p])
  /\ Idle
  /\ kv' = KVFindAndDelete(kv, <<storeName>>)
  /\ inst' = [inst EXCEPT ![p].hasBeenInitialized = FALSE, ![p].pc = "new"]
  /\ UNCHANGED <<tx, fe, sel, out>>

(***************************************************************************)
(* Schema changes by one process: it initialises an instance, writes       *)
(* documents, drops the instance and constructs one with another schema,   *)
(* purges the removed collections, destroys the store.  The key-value      *)
(* store raises no error here.                                             *)
(***************************************************************************)
\* The index on a with a projection and a version.
PeopleAV ==
  Collection("People", <<Index(<<Simple("a")>>, TRUE, <<"a">>, 1)>>)

MigrateSchemas == Schemas \cup {<<PeopleAV>>}

\* The process that acts; the others hold no instance.
Migrators == {1}

\* One operation of migrateDocumentStore that the key-value store carries
\* out, and the code up to the next one.
MigrateStepNoError(p) ==
  /\ inst[p].pc = "migrating"
  /\ MigrateOn(p, MigrateOp(kv, inst[p], FALSE))
  /\ UNCHANGED <<tx, fe, sel, out>>

InitMigrate ==
  /\ kv = << >>
  /\ tx = NoTx
  /\ fe = NoForEach
  /\ inst \in {[p \in Procs |-> IF p \in Migrators THEN NewInstance(s, 1)
                                ELSE NewInstance(<<PeopleBare>>, 0)] :
                 s \in MigrateSchemas}
  /\ sel = NoSel
  /\ out = NoOut

NextMigrate ==
  \/ \E p \in Migrators : InitializeDocumentStore(p)
  \/ \E p \in Migrators : LockDocumentStore(p)
  \/ \E p \in Migrators : UpgradeDocumentStore(p)
  \/ \E p \in Migrators : MigrateLoad(p)
  \/ \E p \in Migrators : MigrateStepNoError(p)
  \/ \E p \in Migrators : UnlockLoad(p)
  \/ \E p \in Migrators : UnlockSave(p)
  \/ \E p \in Migrators, s \in MigrateSchemas : OpenInstance(p, s)
  \/ \E p \in Migrators, ci \in 1..2, k \in DocKeys, d \in FlatDocs :
       (ci = 2 => k = 1) /\ InstancePut(p, ci, k, d)
  \/ \E p \in Migrators, ci \in 1..2, k \in DocKeys :
       (ci = 2 => k = 1) /\ InstanceDelete(p, ci, k)
  \/ \E p \in Migrators : RemoveLoad(p)
  \/ \E p \in Migrators : RemoveCollection(p)
  \/ \E p \in Migrators : RemoveSave(p)
  \/ \E p \in Migrators : DestroyAll(p)

SpecMigrate == InitMigrate /\ [][NextMigrate]_vars

(***************************************************************************)
(* One instance with several callers: calls of initializeDocumentStore     *)
(* that arrive while its body runs, and a transaction handle on which      *)
(* initializeDocumentStore and destroyAll are called.  The handle is       *)
(* Object.create(root): it reads the flags of the root.                    *)
(***************************************************************************)
MaxWaiting == 2      \* calls that arrive while one body runs

\* The process is in the body of initializeDocumentStore, at an await.
InBody(i) ==
  i.pc \in {"lock", "upgrade", "migrate", "migrating", "unlock", "unlocking"}

\* A call of initializeDocumentStore on the root that arrives while a body
\* is at an await: it returns at once, or it sets isInitializing and starts
\* a body of its own (counted; its steps are not followed further).
ReenterInitializeDocumentStore(p) ==
  /\ InBody(inst[p])
  /\ inst[p].waiting < MaxWaiting
  /\ inst' = IF returnsAtOnce(inst[p])
               THEN [inst EXCEPT ![p].waiting = @ + 1]
               ELSE [inst EXCEPT ![p].isInitializing = TRUE,
                                 ![p].bodies = @ + 1]
  /\ UNCHANGED <<kv, tx, fe, sel, out>>

\* transaction(fn) on the root when its initializeDocumentStore call returns
\* at once (the instance is initialised, or a body is running): the
\* transaction of the key-value store begins and fn gets the handle.
Transaction(p) ==
  /\ Idle
  /\ inst[p].rc.pc = "idle"
  /\ returnsAtOnce(inst[p])
  /\ tx' = [NoTx EXCEPT !.status = "open", !.view = kv, !.before = kv,
                        !.opened = storeTransactions("root")]
  /\ UNCHANGED <<kv, fe, inst, sel, out>>

\* Variant: the check of insideTransaction comes before the two flags.
initializeRefusesFirst(i, facade) == insideTransaction(facade)

\* if (this.hasBeenInitialized) return; if (this.isInitializing) return;
\* if (this.insideTransaction) throw ...
initializeRefuses(i, facade) == ~returnsAtOnce(i) /\ insideTransaction(facade)

\* Variant: destroyAll does not look at insideTransaction.
destroyAllRefusesNever(facade) == FALSE

\* if (this.insideTransaction) throw new Error('Cannot destroy a document
\* store inside a transaction')
destroyAllRefuses(facade) == insideTransaction(facade)

\* initializeDocumentStore called on the handle: it returns at once or
\* throws; the handle is never the root, so no body starts.
TxInitialize(p) ==
  /\ tx.status = "open"
  /\ out.op = "none"
  /\ returnsAtOnce(inst[p]) \/ initializeRefuses(inst[p], "handle")
  /\ out' = [NoOut EXCEPT
               !.op = "initializeDocumentStore",
               !.error = IF initializeRefuses(inst[p], "handle")
                           THEN "TransactionMisuse" ELSE ""]
  /\ UNCHANGED <<kv, tx, fe, inst, sel>>

\* destroyAll called on the handle: it throws, or it resets
\* hasBeenInitialized (on the handle) and deletes every pair under the
\* store prefix through the handle's store.
TxDestroyAll(p) ==
  /\ tx.status = "open"
  /\ out.op = "none"
  /\ out' = [NoOut EXCEPT
               !.op = "destroyAll",
               !.error = IF destroyAllRefuses("handle")
                           THEN "TransactionMisuse" ELSE ""]
  /\ tx' = IF destroyAllRefuses("handle") THEN tx
           ELSE [tx EXCEPT !.view = KVFindAndDelete(@, <<storeName>>),
                           !.ops = @ + 1]
  /\ UNCHANGED <<kv, fe, inst, sel>>

\* fn returns or throws without having written: the transaction ends and
\* leaves the store as the other calls made it.
TxLeave ==
  /\ tx.status = "open"
  /\ tx.ops = 0
  /\ out.op = "none"
  /\ tx' = NoTx
  /\ UNCHANGED <<kv, fe, inst, sel, out>>

InitGuard ==
  /\ kv \in InitialStores
  /\ tx = NoTx
  /\ fe = NoForEach
  /\ inst \in {[p \in Procs |-> IF p \in Migrators THEN NewInstance(s, 1)
                                ELSE NewInstance(<<PeopleBare>>, 0)] :
                 s \in Schemas}
  /\ sel = NoSel
  /\ out = NoOut

NextGuard ==
  \/ \E p \in Migrators : InitializeDocumentStore(p)
  \/ \E p \in Migrators : ReenterInitializeDocumentStore(p)
  \/ \E p \in Migrators : LockDocumentStore(p)
  \/ \E p \in Migrators : UpgradeDocumentStore(p)
  \/ \E p \in Migrators : MigrateLoad(p)
  \/ \E p \in Migrators : MigrateStep(p)
  \/ \E p \in Migrators : UnlockLoad(p)
  \/ \E p \in Migrators : UnlockSave(p)
  \/ \E p \in Migrators, s \in Schemas : Idle /\ OpenInstance(p, s)
  \/ \E p \in Migrators, k \in InstanceKeys, d \in FlatDocs :
       Idle /\ InstancePut(p, 1, k, d)
  \/ \E p \in Migrators : DestroyAll(p)
  \/ \E p \in Migrators : Transaction(p)
  \/ \E p \in Migrators : TxInitialize(p)
  \/ \E p \in Migrators : TxDestroyAll(p)
  \/ TxLeave
  \/ OutReturn

SpecGuard == InitGuard /\ [][NextGuard]_vars

(***************************************************************************)
(* put and delete by several initialised instances on one key-value store, *)
(* operation by operation of their transaction.  The key-value store runs  *)
(* a transaction on the content it had when the transaction began and      *)
(* commits its writes at once, unless a pair the transaction read or wrote *)
(* has changed since: then the commit fails and nothing is written.        *)
(***************************************************************************)
\* The pair under key is not the same in the two contents.
Differ(s, t, key) ==
  \/ KVHas(s, key) # KVHas(t, key)
  \/ KVHas(s, key) /\ KVHas(t, key) /\ s[key] # t[key]

\* The keys the transaction wrote.
Written(w) == {k \in DOMAIN w.snap \cup DOMAIN w.view : Differ(w.snap, w.view, k)}

\* A pair the transaction read (the document) or wrote has changed since it
\* began.
Conflicts(s, w) ==
  \E k \in Written(w) \cup {makeDocumentKey(People, w.key)} :
    Differ(s, w.snap, k)

\* The store content with the writes of the transaction.
Committed(s, w) ==
  [k \in (DOMAIN s \ Written(w)) \cup (Written(w) \cap DOMAIN w.view) |->
     IF k \in Written(w) THEN w.view[k] ELSE s[k]]

\* tr.store: what the operations of the body read.
StoreOf(p) == IF transactionStore = "transaction" THEN inst[p].w.view ELSE kv

\* An operation of the body left the content s; the body goes on at pc.
WriteOn(p, s, pc) ==
  IF transactionStore = "transaction"
    THEN /\ inst' = [inst EXCEPT ![p].w.view = s, ![p].w.pc = pc]
         /\ UNCHANGED kv
    ELSE /\ inst' = [inst EXCEPT ![p].w.pc = pc]
         /\ kv' = s

\* put or delete on the root of an initialised instance: the transaction
\* of the key-value store begins.
WriteBegin(p, kind, key, doc) ==
  /\ inst[p].pc = "ready" /\ inst[p].rc.pc = "idle"
  /\ inst[p].w.pc = "none"
  /\ Idle
  /\ doc.present <=> kind = "put"
  /\ inst' = [inst EXCEPT ![p].w =
                [NoWrite EXCEPT !.pc = "get", !.kind = kind, !.key = key,
                                !.doc = doc, !.snap = kv, !.view = kv]]
  /\ UNCHANGED <<kv, tx, fe, sel, out>>

\* oldDoc = await tr.store.get(docKey, {errorIfMissing: false}); delete has
\* nothing more to do when there is no document.
WriteGet(p) ==
  LET w == inst[p].w
      oldDoc == get(StoreOf(p), People, w.key)
  IN  /\ w.pc = "get"
      /\ inst' = [inst EXCEPT
                    ![p].w.old = oldDoc,
                    ![p].w.pc = IF w.kind = "delete" /\ ~oldDoc.present
                                  THEN "commit" ELSE "write"]
      /\ UNCHANGED <<kv, tx, fe, sel, out>>

\* await tr.store.put(docKey, doc, options) / tr.store.delete(docKey)
WriteDoc(p) ==
  LET w == inst[p].w
      docKey == makeDocumentKey(People, w.key)
  IN  /\ w.pc = "write"
      /\ WriteOn(p, IF w.kind = "put" THEN KVPut(StoreOf(p), docKey, w.doc.doc)
                    ELSE KVDelete(StoreOf(p), docKey), "index")
      /\ UNCHANGED <<tx, fe, sel, out>>

\* await tr.updateIndexes(collection, key, oldDoc, doc); an error leaves
\* the body, and the transaction is rolled back.
WriteIndexes(p) ==
  LET w == inst[p].w
      r == updateIndexes(StoreOf(p), People, w.key, w.old, w.doc)
  IN  /\ w.pc = "index"
      /\ IF r.ok THEN WriteOn(p, r.store, "commit")
         ELSE inst' = [inst EXCEPT ![p].w = NoWrite] /\ UNCHANGED kv
      /\ UNCHANGED <<tx, fe, sel, out>>

\* The body returned: the key-value store commits the transaction.
WriteCommit(p) ==
  LET w == inst[p].w
  IN  /\ w.pc = "commit"
      /\ kv' = IF transactionStore = "transaction" /\ ~Conflicts(kv, w)
                 THEN Committed(kv, w) ELSE kv
      /\ inst' = [inst EXCEPT ![p].w = NoWrite]
      /\ UNCHANGED <<tx, fe, sel, out>>

\* The documents the processes write: the first one those of every key,
\* the others those of the keys 1..MaxInstanceKey.
SharedKeys(p) == IF p = 1 THEN DocKeys ELSE InstanceKeys

NextShared ==
  \/ \E p \in Procs, d \in FlatDocs : \E k \in SharedKeys(p) :
       WriteBegin(p, "put", k, Some(d))
  \/ \E p \in Procs : \E k \in SharedKeys(p) : WriteBegin(p, "delete", k, None)
  \/ \E p \in Procs : WriteGet(p)
  \/ \E p \in Procs : WriteDoc(p)
  \/ \E p \in Procs : WriteIndexes(p)
  \/ \E p \in Procs : WriteCommit(p)

SpecShared == InitData /\ [][NextShared]_vars

(***************************************************************************)
(* The keys given to get, put, delete and getMany.  Each of them starts    *)
(* with normalizeCollection and normalizeKey, then awaits                  *)
(* initializeDocumentStore, then goes to the key-value store.  getMany is  *)
(* called with an array of one key.                                        *)
(***************************************************************************)
KeyOps == {"get", "put", "delete", "getMany"}

\* The values given as keys.  "text" is a non-empty string, "finite" a
\* number other than 0 (the document key 1 below).
RawKeys ==
  {[typeof |-> "object", is |-> "null"],
   [typeof |-> "undefined", is |-> "undefined"],
   [typeof |-> "string", is |-> "empty"],
   [typeof |-> "string", is |-> "text"],
   [typeof |-> "number", is |-> "zero"],
   [typeof |-> "number", is |-> "finite"],
   [typeof |-> "number", is |-> "NaN"],
   [typeof |-> "number", is |-> "Infinity"],
   [typeof |-> "number", is |-> "-Infinity"],
   [typeof |-> "boolean", is |-> "false"],
   [typeof |-> "boolean", is |-> "true"],
   [typeof |-> "object", is |-> "object"],
   [typeof |-> "object", is |-> "array"]}

\* !key
falsy(key) ==
  key.is \in {"null", "undefined", "empty", "zero", "NaN", "false"}

\* normalizeKey: the message of the error it throws, "" when it returns.
normalizeKey(key) ==
  IF key.typeof # "number" /\ key.typeof # "string" THEN "Invalid key type"
  ELSE IF falsy(key) THEN "Specified key is null or empty"
  ELSE ""

\* get, put, delete or getMany on the root up to the first await that leaves
\* the instance: the key is normalised, then initializeDocumentStore is
\* called.
KeyCall(p, op, key, doc) ==
  /\ out.op = "none"
  /\ InstanceIdle(inst[p])
  /\ Idle
  /\ out' = [NoOut EXCEPT
               !.op = op, !.given = key,
               !.args = [NoArgs EXCEPT !.doc = IF op = "put" THEN Some(doc)
                                             ELSE None],
               !.error = IF normalizeKey(key) # "" THEN "InvalidKey" ELSE ""]
  /\ IF normalizeKey(key) # "" THEN UNCHANGED <<kv, inst>>
     ELSE InitializeStart(p)
  /\ UNCHANGED <<tx, fe, sel>>

\* The call is waiting for initializeDocumentStore.
Pending == out.op \in KeyOps /\ out.error = "" /\ ~out.accessed

\* initializeDocumentStore returned: the operation goes to the key-value
\* store.  The store content is followed for the key 1 only.
KeyAccess(p) ==
  LET collection == inst[p].schema[1]
      old == get(kv, collection, 1)
      r == IF out.op = "put"
             THEN put(kv, collection, 1, out.args.doc.doc, TRUE, FALSE)
             ELSE delete(kv, collection, 1, TRUE)
      writes == out.given.is = "finite" /\ out.op \in {"put", "delete"}
  IN  /\ Pending
      /\ inst[p].pc = "ready"
      /\ kv' = IF writes /\ r.ok THEN r.store ELSE kv
      /\ out' = [out EXCEPT
                   !.accessed = TRUE,
                   !.error = IF out.op \in {"get", "delete"} /\
                                (out.given.is # "finite" \/ ~old.present)
                               THEN "DocumentNotFound" ELSE ""]
      /\ UNCHANGED <<tx, fe, inst, sel>>

\* initializeDocumentStore threw: so does the operation.
KeyFailed(p) ==
  /\ Pending
  /\ inst[p].pc = "failed"
  /\ out' = [out EXCEPT !.error = inst[p].error]
  /\ UNCHANGED <<kv, tx, fe, inst, sel>>

NextKeys ==
  \/ \E p \in Migrators, op \in KeyOps, key \in RawKeys, d \in FlatDocs :
       KeyCall(p, op, key, d)
  \/ \E p \in Migrators : LockDocumentStore(p)
  \/ \E p \in Migrators : UpgradeDocumentStore(p)
  \/ \E p \in Migrators : MigrateLoad(p)
  \/ \E p \in Migrators : MigrateStep(p)
  \/ \E p \in Migrators : UnlockLoad(p)
  \/ \E p \in Migrators : UnlockSave(p)
  \/ \E p \in Migrators : KeyAccess(p)
  \/ \E p \in Migrators : KeyFailed(p)
  \/ \E p \in Migrators, s \in Schemas :
       out.op = "none" /\ OpenInstance(p, s)
  \/ ~Pending /\ OutReturn

SpecKeys == InitGuard /\ [][NextKeys]_vars

(***************************************************************************)
(* forEach with the options of find: range bounds, reverse and limit.      *)
(***************************************************************************)
MaxLimit == 1        \* the limit given to forEach is 0 (none) .. MaxLimit

NextForEach ==
  \/ \E k \in DocKeys, d \in FlatDocs : Put(People, k, d, TRUE, FALSE)
  \/ \E k \in DocKeys : Delete(People, k, FALSE)
  \/ \E in \in OpsInputs, b \in OpsBounds, reverse \in BOOLEAN,
        limit \in 0..MaxLimit, batchSize \in 0..MaxBatch :
       /\ fe.status = "idle"
       /\ FeStartOptions(People,
                         [BoundedOptions(in, b) EXCEPT !.reverse = reverse,
                                                       !.limit = limit],
                         batchSize)
  \/ FeBatch
  \/ FeReturn

SpecForEach == InitData /\ [][NextForEach]_vars

(***************************************************************************)
(* Operations started on an instance while its initializeDocumentStore is  *)
(* in progress, or after it.  get, put and delete await                    *)
(* initializeDocumentStore and then go to the key-value store (put and     *)
(* delete through this.transaction, which awaits it once more).            *)
(***************************************************************************)
WaitOps == {"get", "put", "delete"}

\* get, put or delete on the root of an instance whose
\* initializeDocumentStore returns at once: the operation goes on to the
\* key-value store.
OperationCall(p, op, key, doc) ==
  LET collection == inst[p].schema[1]
      r == IF op = "put" THEN put(kv, collection, key, doc, TRUE, FALSE)
           ELSE delete(kv, collection, key, FALSE)
  IN  /\ out.op = "none"
      /\ Idle
      /\ inst[p].rc.pc = "idle"
      /\ returnsAtOnce(inst[p])
      /\ kv' = IF op # "get" /\ r.ok THEN r.store ELSE kv
      /\ out' = [NoOut EXCEPT
                   !.op = op, !.accessed = TRUE,
                   !.args = [NoArgs EXCEPT !.key = key,
                                           !.doc = IF op = "put" THEN Some(doc)
                                                   ELSE None],
                   !.error = IF op = "get" /\ ~get(kv, collection, key).present
                               THEN "DocumentNotFound"
                             ELSE IF op # "get" /\ ~r.ok THEN "StoreError"
                             ELSE ""]
      /\ UNCHANGED <<tx, fe, inst, sel>>

NextWait ==
  \/ \E p \in Migrators : InitializeDocumentStore(p)
  \/ \E p \in Migrators : LockDocumentStore(p)
  \/ \E p \in Migrators : UpgradeDocumentStore(p)
  \/ \E p \in Migrators : MigrateLoad(p)
  \/ \E p \in Migrators : MigrateStep(p)
  \/ \E p \in Migrators : UnlockLoad(p)
  \/ \E p \in Migrators : UnlockSave(p)
  \/ \E p \in Migrators, s \in Schemas : out.op = "none" /\ OpenInstance(p, s)
  \/ \E p \in Migrators, op \in WaitOps, k \in InstanceKeys, d \in FlatDocs :
       OperationCall(p, op, k, d)
  \/ OutReturn

SpecWait == InitGuard /\ [][NextWait]_vars

(***************************************************************************)
(* forEach over the orders of the indexes, with full documents, with a     *)
(* projection and with no properties.                                      *)
(***************************************************************************)
\* The (query, order) pairs: the order is absent or a list.
CursorInputs == {in \in ForEachInputs : in[2].kind # "string"}

\* options.properties: '*', a list the projection of the index on a
\* satisfies, and [].
CursorProperties == {AllProperties, Properties(<<"a">>), Properties(<< >>)}

NextCursor ==
  \/ \E k \in DocKeys, d \in Docs : Put(People, k, d, TRUE, FALSE)
  \/ \E k \in DocKeys : Delete(People, k, FALSE)
  \/ \E in \in CursorInputs, properties \in CursorProperties,
        batchSize \in 1..MaxBatch :
       /\ fe.status = "idle"
       /\ FeStartOptions(People,
                         [FindOptions(in[1], in[2]) EXCEPT
                            !.properties = properties],
                         batchSize)
  \/ FeBatch
  \/ FeReturn

SpecCursor == InitData /\ [][NextCursor]_vars

(***************************************************************************)
(* updateIndex as a call of its own, for one index, one document key, an   *)
(* old and a new document.  The store content is followed for the index    *)
(* entries; the entry of the index for the key is the one the old document *)
(* calls for, as put, delete and the index rebuild find it.                *)
(***************************************************************************)
\* The indexes of People the calls are made for, and the documents given,
\* per document key.
StepIndexes(key) == IF key = 1 THEN {1, 3, 4} ELSE {3}

StepDocs(key) ==
  {None} \cup {Some(d) : d \in IF key = 1 THEN Docs ELSE FlatDocs}

\* The entries of the index for the key are what the document calls for.
HoldsEntryOf(s, collection, index, key, doc) ==
  LET values == IndexValues(index, doc)
      entry == makeIndexKey(collection, index, values, key)
      held == {k \in DOMAIN s :
                 /\ IsPrefix(<<storeName,
                               makeIndexCollectionName(
                                 collection.name, makeIndexName(IndexKeys(index)))>>,
                             k)
                 /\ k[Len(k)] = key}
  IN  IF Includes(values, undefined) THEN held = {}
      ELSE held = {entry} /\ s[entry] = Projection(index, doc)

UpdateIndexCall(collection, i, key, oldDoc, newDoc) ==
  LET index == collection.indexes[i]
      r == updateIndex(kv, collection, key, oldDoc, newDoc, index)
  IN  /\ out.op = "none"
      /\ Idle
      /\ HoldsEntryOf(kv, collection, index, key, oldDoc)
      /\ r.ok
      /\ kv' = r.store
      /\ out' = [NoOut EXCEPT
                   !.op = "updateIndex", !.index = i,
                   !.args = [NoArgs EXCEPT !.key = key, !.doc = newDoc],
                   !.old = oldDoc,
                   !.calls = updateIndexCalls(collection, key, oldDoc, newDoc,
                                              index)]
      /\ UNCHANGED <<tx, fe, inst, sel>>

NextIndexStep ==
  \/ \E key \in DocKeys :
       \E i \in StepIndexes(key), oldDoc, newDoc \in StepDocs(key) :
         /\ out.op = "none"
         /\ UpdateIndexCall(People, i, key, oldDoc, newDoc)
  \/ OutReturn

SpecIndexStep == InitData /\ [][NextIndexStep]_vars

(***************************************************************************)
(* find with an index, outside a transaction, next to the writes of other  *)
(* callers.  The index is read by store.find and the documents by getMany, *)
(* two calls of the key-value store; puts and deletes commit before,       *)
(* between and after them.  out.calls holds the committed states of the    *)
(* store since the call started.                                           *)
(***************************************************************************)
MaxCommits == 2      \* writes that commit while one find is in progress

SnapshotInputs ==
  {<<[k \in {"a"} |-> v], NoOrder>> : v \in Vals}
    \cup {<<NoQuery, OrderArray(<<"a">>)>>}

\* _findWithIndex up to the return of store.find.
FindIndexRead(collection, options) ==
  LET i == findIndexForQueryAndOrder(collection.indexes, options.query,
                                     options.order)
  IN  /\ Idle /\ out.op = "none"
      /\ i # 0
      /\ findFetchesDocuments(options, collection.indexes[i])
      /\ out' = [NoOut EXCEPT
                   !.op = "finding",
                   !.args = [NoArgs EXCEPT !.options = options],
                   !.index = i,
                   !.items = findIndexItems(kv, collection, options,
                                            collection.indexes[i]),
                   !.calls = <<kv>>]
      /\ UNCHANGED <<kv, tx, fe, inst, sel>>

\* items = await this.getMany(collection, keys, {errorIfMissing: false})
FindFetch(collection) ==
  /\ out.op = "finding"
  /\ out' = [out EXCEPT
               !.op = "find",
               !.items = getMany(kv, collection, KeysOfItems(out.items),
                                 AllProperties)]
  /\ UNCHANGED <<kv, tx, fe, inst, sel>>

\* A put or a delete of another caller commits while the find is in
\* progress.
CommitDuringFind(r) ==
  /\ out.op = "finding"
  /\ Len(out.calls) <= MaxCommits
  /\ r.ok
  /\ kv' = r.store
  /\ out' = [out EXCEPT !.calls = Append(@, r.store)]
  /\ UNCHANGED <<tx, fe, inst, sel>>

NextSnapshot ==
  \/ \E k \in DocKeys, d \in FlatDocs :
       out.op = "none" /\ Put(People, k, d, TRUE, FALSE)
  \/ \E k \in DocKeys : out.op = "none" /\ Delete(People, k, FALSE)
  \/ \E in \in SnapshotInputs :
       /\ out.op = "none"
       /\ FindIndexRead(People, FindOptions(in[1], in[2]))
  \/ \E k \in DocKeys, d \in FlatDocs :
       /\ out.op = "finding"
       /\ CommitDuringFind(put(kv, People, k, d, TRUE, FALSE))
  \/ \E k \in DocKeys :
       /\ out.op = "finding"
       /\ CommitDuringFind(delete(kv, People, k, FALSE))
  \/ FindFetch(People)
  \/ OutReturn

SpecSnapshot == InitData /\ [][NextSnapshot]_vars

(***************************************************************************)
(* The rebuild of an index step by step, next to the writes of the callers. *)
(* _addIndex and _updateIndex scan the collection with forEach: a batch is *)
(* read by find, then updateIndex runs on each of its items, one operation *)
(* of the key-value store at a time.  fe holds the scan: items is the      *)
(* batch read last and n the item updateIndex runs on next.                *)
(***************************************************************************)
\* The index the initialising instance declares.
RebuiltIndex == Index(<<Simple("a")>>, TRUE, <<"a", "n.c">>, undefined)

PeopleIndexed == Collection("People", <<RebuiltIndex>>)

\* What the store was created with: no index (the index is added), or the
\* index on a without its projection (the index is rebuilt).
FormerSchemas == {<<PeopleBare>>, <<PeopleA>>}

\* The instance inside migrateDocumentStore, the lock taken.
MigratingInstance(schema, record) ==
  [NewInstance(schema, 1) EXCEPT
     !.pc = "migrating", !.isInitializing = TRUE, !.lastCall = "ran",
     !.bodies = 1, !.acquired = TRUE, !.rec = record]

InitRebuild ==
  /\ \E former \in FormerSchemas :
       LET record == [NewRecord(former) EXCEPT !.isLocked = TRUE]
       IN  /\ kv = [k \in {<<storeName>>} |-> record]
           /\ inst = [p \in Procs |->
                        IF p \in Migrators
                          THEN MigratingInstance(<<PeopleIndexed>>, record)
                          ELSE ReadyInstance(former)]
  /\ tx = NoTx
  /\ fe = NoForEach
  /\ sel = NoSel
  /\ out = NoOut

\* _updateIndex deletes the entries of the index (store.findAndDelete on its
\* prefix), _addIndex does not; then forEach(collection, {}, fn) starts.
RebuildStart(p) ==
  LET existing == inst[p].rec.collections[1].indexes
  IN  /\ inst[p].pc = "migrating" /\ inst[p].sub = "start"
      /\ fe.status = "idle"
      /\ kv' = IF Len(existing) > 0
                 THEN removeIndex(kv, "People", IndexKeys(RebuiltIndex))
                 ELSE kv
      /\ fe' = [status |-> "running", collection |-> PeopleIndexed,
                options |-> [FindOptions(NoQuery, NoOrder) EXCEPT
                               !.limit = DefaultBatchSize],
                visited |-> << >>, given |-> FindOptions(NoQuery, NoOrder),
                items |-> << >>, n |-> 1]
      /\ inst' = [inst EXCEPT ![p].sub = "rebuild"]
      /\ UNCHANGED <<tx, sel, out>>

\* items = await this.find(collection, options); the cursor of the next
\* batch is the key of the last item.
RebuildBatch(p) ==
  LET items == find(kv, fe.collection, fe.options).items
  IN  /\ inst[p].sub = "rebuild"
      /\ fe.status = "running" /\ fe.n > Len(fe.items)
      /\ fe' = IF Len(items) = 0 THEN [fe EXCEPT !.status = "done"]
               ELSE [fe EXCEPT
                       !.items = items, !.n = 1,
                       !.options.startAfter =
                         Bound(makeOrderKey(Last(items).key,
                                            Last(items).document, << >>)),
                       !.options.start = NoBound]
      /\ UNCHANGED <<kv, tx, inst, sel, out>>

\* fn on one item: updateIndex(collection, key, undefined, doc, index), with
\* the document as the batch read it.
RebuildWrite(p) ==
  LET item == fe.items[fe.n]
      r == updateIndex(kv, fe.collection, item.key, None,
                       Some(item.document.doc), RebuiltIndex)
  IN  /\ inst[p].sub = "rebuild"
      /\ fe.status = "running" /\ fe.n <= Len(fe.items)
      /\ kv' = IF r.ok THEN r.store ELSE kv
      /\ fe' = IF r.ok THEN [fe EXCEPT !.n = @ + 1]
               ELSE [fe EXCEPT !.status = "error"]
      /\ UNCHANGED <<tx, inst, sel, out>>

\* forEach returned: the index goes to the record, the record is saved, and
\* migrateDocumentStore is over.
RebuildEnd(p) ==
  LET record == [inst[p].rec EXCEPT
                   !.collections = NewRecord(<<PeopleIndexed>>).collections]
  IN  /\ inst[p].sub = "rebuild"
      /\ fe.status = "done"
      /\ kv' = saveDocumentStoreRecord(kv, record)
      /\ fe' = NoForEach
      /\ inst' = [inst EXCEPT ![p] = Leave(emitMigrationDidStop(
                    [emitMigrationDidStart(inst[p]) EXCEPT !.rec = record]))]
      /\ UNCHANGED <<tx, sel, out>>

\* put or delete by a caller whose initializeDocumentStore returns at once:
\* the instance is initialised, or it is the one that is initialising.
WriteCall(p, op, key, doc) ==
  LET collection == inst[p].schema[1]
      r == IF op = "put" THEN put(kv, collection, key, doc, TRUE, FALSE)
           ELSE delete(kv, collection, key, FALSE)
  IN  /\ returnsAtOnce(inst[p])
      /\ r.ok
      /\ kv' = r.store
      /\ UNCHANGED <<tx, fe, inst, sel, out>>

NextRebuild ==
  \/ \E p \in Migrators : RebuildStart(p)
  \/ \E p \in Migrators : RebuildBatch(p)
  \/ \E p \in Migrators : RebuildWrite(p)
  \/ \E p \in Migrators : RebuildEnd(p)
  \/ \E p \in Migrators : UnlockLoad(p)
  \/ \E p \in Migrators : UnlockSave(p)
  \/ \E p \in Procs, k \in InstanceKeys, d \in Docs :
       WriteCall(p, "put", k, d)
  \/ \E p \in Procs, k \in InstanceKeys :
       WriteCall(p, "delete", k, CHOOSE d \in Docs : TRUE)

SpecRebuild == InitRebuild /\ [][NextRebuild]_vars

(***************************************************************************)
(* Declared names.  The constructor takes any collection name and any      *)
(* property keys; Collection.addIndex refuses only an index whose keys are *)
(* those of an index it has.                                               *)
(***************************************************************************)
\* An index on the property named "a+n.c" next to the index on a and n.c.
PeoplePlus ==
  Collection("People",
    <<SimpleIndex(<<"a", "n.c">>), SimpleIndex(<<"a+n.c">>)>>)

\* A collection that bears the name of the index on a of People.
PeopleColonA == Collection("People:a", << >>)

NamedSchemas ==
  {<<People, Notes>>, <<PeopleA, Tags>>, <<PeoplePlus>>,
   <<PeopleA, PeopleColonA>>}

\* findIndexIndex(keys) !== -1 never held: the constructor has not thrown.
addIndexAccepts(collection) ==
  \A i, j \in DOMAIN collection.indexes :
    i # j => IndexKeys(collection.indexes[i]) # IndexKeys(collection.indexes[j])

InitNames ==
  /\ \E schema \in NamedSchemas :
       /\ \A i \in DOMAIN schema : addIndexAccepts(schema[i])
       /\ kv = [k \in {<<storeName>>} |-> NewRecord(schema)]
       /\ inst = [p \in Procs |-> ReadyInstance(schema)]
  /\ tx = NoTx
  /\ fe = NoForEach
  /\ sel = NoSel
  /\ out = NoOut

NextNames ==
  \/ \E c \in Range(inst[1].schema), k \in DocKeys, d \in Docs :
       Put(c, k, d, TRUE, FALSE)
  \/ \E c \in Range(inst[1].schema), k \in DocKeys : Delete(c, k, FALSE)

SpecNames == InitNames /\ [][NextNames]_vars

(***************************************************************************)
(* Index selection on every small list of indexes, query and order.        *)
(***************************************************************************)
MaxIndexes == 2      \* indexes of the collection
MaxIndexKeys == 2    \* properties of an index, and keys of an order

SelKeys == {"a", "b"}

KeyLists == UNION {[1..m -> SelKeys] : m \in 1..MaxIndexKeys}

\* addIndex refuses an index whose keys another index has.
IndexLists ==
  {l \in UNION {[1..m -> {SimpleIndex(ks) : ks \in KeyLists}] :
                  m \in 0..MaxIndexes} :
     \A x, y \in DOMAIN l : x # y => l[x] # l[y]}

SelQueries == UNION {[ks -> {1}] : ks \in SUBSET SelKeys}

SelOrders ==
  {NoOrder} \cup {OrderString(k) : k \in SelKeys}
    \cup {OrderArray(ks) : ks \in KeyLists \cup {<< >>}}

InitSelect ==
  /\ kv = << >>
  /\ tx = NoTx
  /\ fe = NoForEach
  /\ inst = [p \in Procs |-> NewInstance(<<PeopleA>>, 1)]
  /\ sel \in [indexes : IndexLists, query : SelQueries, order : SelOrders,
              called : {FALSE}, result : {0}]
  /\ out = NoOut

NextSelect == FindIndexForQueryAndOrder

SpecSelect == InitSelect /\ [][NextSelect]_vars

(***************************************************************************)
(* Properties of the document operations.                                  *)
(***************************************************************************)
\* The documents of a collection in a store content.
StoredKeys(s, collection) ==
  {k \in DocKeys : KVHas(s, makeDocumentKey(collection, k))}

StoredDoc(s, collection, k) == Some(s[makeDocumentKey(collection, k)])

\* The entries found under the name segment of an index.
EntriesUnder(s, collection, index) ==
  {k \in DOMAIN s :
     /\ Len(k) >= 2
     /\ k[2] = makeIndexCollectionName(collection.name,
                                       makeIndexName(IndexKeys(index)))}

\* The entries the stored documents call for: one per document whose index
\* values are all defined.
EntriesDue(s, collection, index) ==
  {makeIndexKey(collection, index,
                IndexValues(index, StoredDoc(s, collection, k)), k) :
     k \in {x \in StoredKeys(s, collection) :
              ~Includes(IndexValues(index, StoredDoc(s, collection, x)),
                        undefined)}}

IndexIntegrity(s, collection) ==
  \A i \in DOMAIN collection.indexes :
    EntriesUnder(s, collection, collection.indexes[i])
      = EntriesDue(s, collection, collection.indexes[i])

\* C1: index integrity.  After any sequence of put and delete operations,
\* for every index of the collection the entries under the index's name
\* segment are exactly the index keys of the stored documents whose index
\* values are all defined: no entry is missing and none is stale.
C1_IndexIntegrity == IndexIntegrity(kv, People)

\* C1 witness: two stored documents, one with an entry in the compound index
\* and one without (its n.c is undefined) that still has one in the index on a.
C1_Witness ==
  /\ StoredKeys(kv, People) = DocKeys
  /\ \E k \in DocKeys :
       /\ kv[makeDocumentKey(People, k)].a # undefined
       /\ kv[makeDocumentKey(People, k)].n.c = undefined
  /\ Cardinality(EntriesUnder(kv, People, People.indexes[1])) = MaxKey - 1
  /\ Cardinality(EntriesUnder(kv, People, People.indexes[3])) = MaxKey

\* C2: transaction atomicity.  When the callback of transaction(fn) throws,
\* the store content (every document and every index entry) is what it was
\* when transaction() was called.
C2_TransactionAtomicity == tx.status = "aborted" => kv = tx.before

\* C2 witness: a transaction was aborted after writes through its handle.
C2_Witness == tx.status = "aborted" /\ tx.ops = MaxTxOps

\* The queries and orders find is asked with.
Queries ==
  {NoQuery}
    \cup UNION {[ks -> Vals] : ks \in (SUBSET {"a", "n.c", "rev"}) \ {{}}}

Orders ==
  {NoOrder, OrderString("a"), OrderString("n.c"), OrderString("rev")}
    \cup {OrderArray(ks) : ks \in {<<"a">>, <<"n.c">>, <<"rev">>,
                                   <<"a", "n.c">>, <<"n.c", "a">>}}

\* The documents a query matches on an index: their values on the first
\* |query| properties equal the query's and all their index values are
\* defined.
Matching(s, collection, index, query) ==
  {k \in StoredKeys(s, collection) :
     LET values == IndexValues(index, StoredDoc(s, collection, k))
     IN  /\ ~Includes(values, undefined)
         /\ \A j \in 1..Cardinality(DOMAIN query) :
              values[j] = query[IndexKeys(index)[j]]}

\* The sort key of a document under an index and a query: the values of the
\* index properties after the query's, then the document key.
SortKey(s, collection, index, query, k) ==
  Tail0(IndexValues(index, StoredDoc(s, collection, k)),
        Cardinality(DOMAIN query)) \o <<k>>

FindIsExact(s, collection, query, order) ==
  LET i == findIndexForQueryAndOrder(collection.indexes, query, order)
      index == collection.indexes[i]
      r == find(s, collection, FindOptions(query, order))
      keys == KeysOfItems(r.items)
  IN  (i # 0 /\ (DOMAIN query # {} \/ order.kind # "none")) =>
        /\ r.ok
        /\ Range(keys) = Matching(s, collection, index, query)
        /\ \A x, y \in DOMAIN keys :
             x < y => TupleLess(SortKey(s, collection, index, query, keys[x]),
                                SortKey(s, collection, index, query, keys[y]))

\* C3: find is exact and ordered.  For every query and order that select an
\* index, find without bounds or limit returns exactly the keys of the
\* documents matching the query on the index prefix whose index values are
\* all defined, each once, sorted by the remaining index values and then by
\* document key.
C3_FindExactAndOrdered ==
  \A q \in Queries, o \in Orders : FindIsExact(kv, People, q, o)

\* C3 witness: two documents match a query on a and come back ordered by
\* n.c against the order of their keys.
C3_Witness ==
  \E v \in Vals :
    KeysOfItems(find(kv, People,
                     FindOptions([k \in {"a"} |-> v],
                                 OrderArray(<<"n.c">>))).items) = <<2, 1>>

\* C4: batched iteration.  On a store that is not modified meanwhile, a
\* forEach over a (query, order) that find accepts ends normally and has
\* called fn once for every item find returns, in find's order, whatever the
\* batch size.
C4_ForEachVisitsFind ==
  LET r == find(kv, fe.collection,
                FindOptions(fe.options.query, fe.options.order))
  IN  (fe.status \in {"done", "error", "diverged"} /\ r.ok) =>
        fe.status = "done" /\ fe.visited = KeysOfItems(r.items)

\* C5: round trip.  A successful put(C, k, doc) makes get(C, k) return doc, a
\* successful delete(C, k) makes it return nothing, through the facade that
\* wrote; the answer of get(C, k) changes only by a put or delete of k in C
\* (directly, or committed with the transaction that made it), never by an
\* operation on another key or collection.
C5_RoundTrip ==
  [][\A c \in Collections : \A k \in KeysOf(c) :
       /\ \A d \in FlatDocs, cim, eie \in BOOLEAN :
            /\ (Put(c, k, d, cim, eie) /\ put(kv, c, k, d, cim, eie).ok)
                 => get(kv', c, k) = Some(d)
            /\ TxPut(c, k, d, cim, eie) => get(tx'.view, c, k) = Some(d)
       /\ \A eim \in BOOLEAN :
            /\ (Delete(c, k, eim) /\ delete(kv, c, k, eim).ok)
                 => get(kv', c, k) = None
            /\ TxDelete(c, k, eim) => get(tx'.view, c, k) = None
       /\ get(kv', c, k) # get(kv, c, k) =>
            \/ \E d \in FlatDocs, cim, eie \in BOOLEAN : Put(c, k, d, cim, eie)
            \/ \E eim \in BOOLEAN : Delete(c, k, eim)
            \/ TxCommit /\ <<c.name, k>> \in tx.touched
       /\ (tx.status = "open" /\ tx'.status = "open"
             /\ get(tx'.view, c, k) # get(tx.view, c, k)) =>
            \/ \E d \in FlatDocs, cim, eie \in BOOLEAN : TxPut(c, k, d, cim, eie)
            \/ \E eim \in BOOLEAN : TxDelete(c, k, eim)]_vars

\* C5 witness: both collections hold a document under the same key, with
\* different contents.
C5_Witness ==
  /\ get(kv, People, 1).present /\ get(kv, Notes, 1).present
  /\ get(kv, People, 1) # get(kv, Notes, 1)

(***************************************************************************)
(* Properties of the schema engine.                                        *)
(***************************************************************************)
\* The instance is between a successful lock acquisition and its unlock.
InCriticalSection(p) ==
  inst[p].pc \in {"upgrade", "migrate", "migrating", "unlock", "unlocking"}

\* C6: schema lock mutual exclusion.  For any interleaving of
\* initializeDocumentStore calls made by distinct store instances on the
\* same store name, at most one of them is between a successful lock
\* acquisition and its unlock, so the upgrade and migrate of two
\* initialisers never overlap.
C6_LockMutualExclusion ==
  Cardinality({p \in Procs : InCriticalSection(p)}) <= 1

\* C6 witness: one initialiser is migrating while another one waits for the
\* lock the record says is taken.
C6_Witness ==
  \E p, q \in Procs :
    /\ inst[p].pc = "migrating"
    /\ inst[q].pc = "lock"
    /\ loadDocumentStoreRecord(kv).isLocked

\* C7: every mutation of the schema record is serialised by the lock.
\* While the persisted isLocked is true, a step that writes the record (or
\* changes isLocked) is a step of an instance that holds the lock: its own
\* upgrade, migrate or unlock.  removeCollectionsMarkedAsRemoved breaks it:
\* it loads and saves the record without taking or testing the lock.
C7_RecordWritesHoldLock ==
  [][(/\ HasRecord(kv)
      /\ loadDocumentStoreRecord(kv).isLocked
      /\ HasRecord(kv')
      /\ loadDocumentStoreRecord(kv') # loadDocumentStoreRecord(kv))
       => \E p \in Procs : InCriticalSection(p) /\ inst'[p] # inst[p]]_vars

\* C8: lock release.  When an initializeDocumentStore call that has acquired
\* the lock returns or throws, the persisted record has isLocked = false,
\* whatever step failed, and the error the call throws is the one the
\* failing step raised.
C8_LockRelease ==
  [][\A p \in Procs :
       (inst[p].acquired /\ inst'[p].pc \in {"ready", "failed"}) =>
         /\ HasRecord(kv')
         /\ ~loadDocumentStoreRecord(kv').isLocked
         /\ inst'[p].pc = "ready" => inst[p].thrown = ""
         /\ inst'[p].pc = "failed" =>
              /\ inst'[p].error = inst[p].thrown
              /\ inst[p].thrown \in {"CannotDowngrade", "CannotUpgrade",
                                     "ReAddNotSupported", "IndexRebuildFailed"}]_vars

\* C8 witness: an initialisation that declared a removed collection again
\* has thrown, and the record is unlocked.
C8_Witness ==
  \E p \in Procs :
    /\ inst[p].pc = "failed"
    /\ inst[p].error = "ReAddNotSupported"
    /\ ~loadDocumentStoreRecord(kv).isLocked

\* The store content with the lock bit of the record cleared.
Unlocked(s) ==
  IF HasRecord(s)
    THEN saveDocumentStoreRecord(
           s, [loadDocumentStoreRecord(s) EXCEPT !.isLocked = FALSE])
    ELSE s

\* C9: idempotence of initialisation.  Once initializeDocumentStore has
\* succeeded, a further call on the same instance returns before its first
\* operation on the key-value store and emits no event; and the steps of an
\* initialisation whose declared schema is the persisted one leave the
\* record's collections and index metadata, every document and every index
\* entry as they are (the lock bit apart) and emit neither willMigrate nor
\* didMigrate.
C9_InitializationIdempotent ==
  [][\A p \in Procs :
       /\ (/\ inst[p].pc = "ready"
           /\ inst'[p] # inst[p]
           /\ inst'[p].gen = inst[p].gen
           /\ inst'[p].rc = inst[p].rc)
            => /\ kv' = kv
               /\ inst'[p] = [inst[p] EXCEPT !.lastCall = "returned"]
       /\ (/\ inst'[p].identical
           /\ inst'[p] # inst[p]
           /\ inst'[p].rc = inst[p].rc)
            => /\ Unlocked(kv') = Unlocked(kv)
               /\ inst'[p].events \cap {"willMigrate", "didMigrate"} = {}]_vars

\* C9 witness: an instance was initialised on a store that held its schema,
\* a document and an index entry, and was then asked to initialise again.
C9_Witness ==
  \E p \in Procs :
    /\ inst[p].pc = "ready"
    /\ inst[p].identical
    /\ inst[p].lastCall = "returned"
    /\ inst[p].events = {"didInitialize"}
    /\ \E k \in InstanceKeys : KVHas(kv, makeDocumentKey(PeopleA, k))
    /\ \E k \in DOMAIN kv : IsPrefix(indexPrefix("People", <<"a">>), k)

(***************************************************************************)
(* Properties of the index selection.                                      *)
(***************************************************************************)
\* The order as a list: a bare string is the one-element list.
OrderList(order) ==
  IF order.kind = "none" THEN << >>
  ELSE IF order.kind = "string" THEN <<order.val[1]>>
  ELSE order.val

\* An index satisfies a query and an order: its first |query| keys are the
\* query keys and the keys after them are the order.
Satisfies(index, query, order) ==
  LET keys == IndexKeys(index)
      n == Cardinality(DOMAIN query)
  IN  /\ Len(keys) >= n
      /\ {keys[j] : j \in 1..n} = DOMAIN query
      /\ [j \in 1..(Len(keys) - n) |-> keys[n + j]] = OrderList(order)

Satisfying == {j \in DOMAIN sel.indexes :
                 Satisfies(sel.indexes[j], sel.query, sel.order)}

\* C10: index selection.  findIndexForQueryAndOrder returns the first index
\* in declaration order whose first |query| keys are the query keys in any
\* order and whose remaining keys are the order as a sequence; it fails
\* with 'Index not found' when no index satisfies both.
C10_IndexSelection ==
  sel.called =>
    IF Satisfying = {} THEN sel.result = 0
    ELSE sel.result \in Satisfying /\ \A j \in Satisfying : sel.result <= j

\* C10 witness: two declared indexes satisfy a query on two keys and the
\* call has returned the first one.
C10_Witness ==
  /\ sel.called
  /\ Cardinality(DOMAIN sel.query) = MaxIndexKeys
  /\ Cardinality(Satisfying) = MaxIndexes
  /\ sel.result = 1

(***************************************************************************)
(* Properties of the projection of an indexed find.                        *)
(***************************************************************************)
\* The property lists find is asked for ('*' apart).
PropertyLists ==
  {<< >>, <<"a">>, <<"n.c">>, <<"a", "n.c">>, <<"zzz">>, <<"a", "zzz">>}

\* Indexed finds: on the index on a that carries a projection, on the
\* compound index and on the computed one, which carry none.
IndexedInputs ==
  {<<NoQuery, OrderString("a")>>, <<NoQuery, OrderArray(<<"rev">>)>>}
    \cup {<<[k \in {"a"} |-> v], NoOrder>> : v \in Vals}
    \cup {<<[k \in {"a"} |-> v], OrderArray(<<"n.c">>)>> : v \in Vals}

\* The paths with a non-null value, picked from the flattened document.
Picked(doc, paths) ==
  [k \in {x \in Range(paths) : flatten(doc)[x] # undefined} |-> flatten(doc)[k]]

\* What an item of an indexed find carries, by the requested properties.
ExpectedDocument(s, collection, index, properties, k) ==
  LET list == properties.list
      inside == /\ index.hasProjection
                /\ Range(list) \subseteq Range(index.projection)
  IN  IF properties.all \/ (Len(list) > 0 /\ ~inside)
        THEN FullDocument(s[makeDocumentKey(collection, k)])
      ELSE IF Len(list) > 0
        THEN Payload(Picked(s[makeDocumentKey(collection, k)], index.projection))
      ELSE NoDocument

ProjectionDecision(s, collection, query, order, properties) ==
  LET index == collection.indexes[
                 findIndexForQueryAndOrder(collection.indexes, query, order)]
      keysOnly == find(s, collection,
                       [FindOptions(query, order) EXCEPT
                          !.properties = Properties(<< >>)])
      r == find(s, collection,
                [FindOptions(query, order) EXCEPT !.properties = properties])
  IN  /\ r.ok /\ keysOnly.ok
      /\ KeysOfItems(r.items) = KeysOfItems(keysOnly.items)
      /\ \A i \in DOMAIN r.items :
           r.items[i].document =
             ExpectedDocument(s, collection, index, properties, r.items[i].key)

\* C11: projection decision.  An indexed find asked for '*', or for a
\* property outside the projection of the selected index (or on an index
\* without projection), returns the full current documents; asked for a
\* non-empty list inside the projection it returns the payloads of the index
\* entries, which are the projected paths with a non-null value picked from
\* the current documents; asked for no property it returns keys only.  The
\* keys and their order are the same in the three cases.
C11_ProjectionDecision ==
  \A in \in IndexedInputs :
    \A properties \in {AllProperties} \cup {Properties(l) : l \in PropertyLists} :
      ProjectionDecision(kv, People, in[1], in[2], properties)

\* C11 witness: a find on a, served from the projection, returns two
\* payloads: one with both projected paths and one without n.c.
C11_Witness ==
  \E v \in Vals :
    LET r == find(kv, People,
                  [FindOptions([k \in {"a"} |-> v], NoOrder) EXCEPT
                     !.properties = Properties(<<"a", "n.c">>)])
    IN  /\ Len(r.items) = 2
        /\ \E i, j \in DOMAIN r.items :
             /\ DOMAIN r.items[i].document.payload = {"a", "n.c"}
             /\ DOMAIN r.items[j].document.payload = {"a"}

(***************************************************************************)
(* Properties of the migration.                                            *)
(***************************************************************************)
\* The collections the instances may declare, and the name segments of the
\* indexes they may declare for a collection name.
Declarable == UNION {Range(schema) : schema \in MigrateSchemas}

IndexSegments(name) ==
  {makeIndexCollectionName(c.name, makeIndexName(IndexKeys(c.indexes[x]))) :
     c \in {d \in Declarable : d.name = name /\ Len(d.indexes) > 0},
     x \in {1}}

DeclaredSegments(collection) ==
  {makeIndexCollectionName(collection.name, makeIndexName(IndexKeys(index))) :
     index \in Range(collection.indexes)}

\* The record and the index entries of a store content agree with a
\* declared schema.
Reconciled(s, schema) ==
  LET record == loadDocumentStoreRecord(s)
  IN  /\ HasRecord(s)
      /\ \A ci \in DOMAIN schema :
           LET xi == CollPos(record.collections, schema[ci].name)
               existing == record.collections[xi]
           IN  /\ xi # 0
               /\ ~existing.hasBeenRemoved
               /\ Len(existing.indexes) = Len(schema[ci].indexes)
               /\ {e.keys : e \in Range(existing.indexes)}
                    = {IndexKeys(d) : d \in Range(schema[ci].indexes)}
               /\ IndexIntegrity(s, schema[ci])
               /\ \A k \in DOMAIN s :
                    (Len(k) >= 2 /\ k[2] \in IndexSegments(schema[ci].name))
                      => k[2] \in DeclaredSegments(schema[ci])

\* C12: migration reconciles indexes.  Once initializeDocumentStore has
\* succeeded on an instance, for every collection it declares the persisted
\* index list is the declared one by keys, the entries of every declared
\* index are exactly those the stored documents call for (built for an index
\* that was added), and no entry is left under the name segment of an index
\* that is not declared any more.
C12_MigrationReconciles ==
  \A p \in Migrators : inst[p].pc = "ready" => Reconciled(kv, inst[p].schema)

\* C12 witness: an initialisation that migrated has succeeded on an instance
\* that declares an index on People; two documents are stored, one of them
\* with an entry in the index.
C12_Witness ==
  \E p \in Migrators :
    /\ inst[p].pc = "ready"
    /\ "didMigrate" \in inst[p].events
    /\ ~inst[p].identical
    /\ Len(inst[p].schema[1].indexes) = 1
    /\ StoredKeys(kv, inst[p].schema[1]) = DocKeys
    /\ Cardinality(EntriesUnder(kv, inst[p].schema[1],
                                inst[p].schema[1].indexes[1])) = 1

\* The pairs under the name segment of an index.
PairsUnder(s, collection, index) ==
  [k \in EntriesUnder(s, collection, index) |-> s[k]]

\* The persisted definition of an index of a collection, by keys.
Persisted(s, collection, index) ==
  LET collections == loadDocumentStoreRecord(s).collections
      xi == CollPos(collections, collection.name)
      ei == IF xi = 0 THEN 0
            ELSE IdxPos(collections[xi].indexes, IndexKeys(index))
  IN  IF ~HasRecord(s) \/ xi = 0 \/ ei = 0 THEN [keys |-> << >>]
      ELSE collections[xi].indexes[ei]

\* The payload an entry is due under the definition of its index.
PayloadDue(s, collection, index, k) ==
  IF index.hasProjection
    THEN Picked(s[makeDocumentKey(collection, k)], index.projection)
    ELSE << >>

\* The persisted definitions and the payloads are the declared ones.
Updated(s, schema) ==
  \A ci \in DOMAIN schema : \A di \in DOMAIN schema[ci].indexes :
    LET index == schema[ci].indexes[di]
    IN  /\ Persisted(s, schema[ci], index) = IndexToJSON(index)
        /\ \A k \in EntriesUnder(s, schema[ci], index) :
             s[k] = PayloadDue(s, schema[ci], index, Last(k))

\* A step of an initialisation by p (not of a put, a purge or destroyAll).
InitializationStep(p) ==
  /\ inst'[p] # inst[p]
  /\ inst[p].pc # "ready"
  /\ inst'[p].gen = inst[p].gen
  /\ inst[p].rc.pc = "idle" /\ inst'[p].rc.pc = "idle"
  /\ HasRecord(kv')

\* C13: index update.  An initialisation that finds a declared index with
\* the keys of a persisted one but another projection or version rebuilds
\* it: once it has succeeded the persisted projection and version are the
\* declared ones and the payload of every entry is the projection computed
\* with the declared definition.  No step of an initialisation changes a
\* pair of an index whose persisted projection and version are the declared
\* ones.
C13_IndexUpdate ==
  [][\A p \in Migrators :
       /\ inst'[p].pc = "ready" => Updated(kv', inst'[p].schema)
       /\ InitializationStep(p) =>
            \A ci \in DOMAIN inst[p].schema :
              \A di \in DOMAIN inst[p].schema[ci].indexes :
                LET index == inst[p].schema[ci].indexes[di]
                IN  Persisted(kv, inst[p].schema[ci], index) = IndexToJSON(index)
                      => PairsUnder(kv', inst[p].schema[ci], index)
                           = PairsUnder(kv, inst[p].schema[ci], index)]_vars

\* C13 witness: the migration has deleted and rebuilt the entries of the
\* index on a, whose declared projection is not the persisted one: an entry
\* carries the new payload and the record still holds the old definition.
C13_Witness ==
  \E p \in Migrators :
    /\ inst[p].pc = "migrating"
    /\ Work(inst[p].rec, inst[p].schema).kind = "updateIndex"
    /\ inst[p].sub = "save"
    /\ ~Persisted(kv, inst[p].schema[1], inst[p].schema[1].indexes[1]).hasProjection
    /\ \E k \in EntriesUnder(kv, inst[p].schema[1], inst[p].schema[1].indexes[1]) :
         DOMAIN kv[k] = {"a"}

\* The names of the collections the instances may declare.
CollectionNames == {c.name : c \in Declarable}

\* The documents, the index pairs and the record entry of a collection.
Documents(s, name) ==
  [k \in {x \in DOMAIN s : Len(x) = 3 /\ x[2] = name} |-> s[k]]

IndexPairs(s, name) ==
  [k \in {x \in DOMAIN s : Len(x) >= 2 /\ x[2] \in IndexSegments(name)} |-> s[k]]

RecordEntry(s, name) ==
  LET collections == loadDocumentStoreRecord(s).collections
  IN  IF HasRecord(s) /\ CollPos(collections, name) # 0
        THEN <<collections[CollPos(collections, name)]>>
        ELSE << >>

\* The collection is in the record, marked as removed.
MarkedRemoved(s, name) ==
  RecordEntry(s, name) # << >> /\ RecordEntry(s, name)[1].hasBeenRemoved

Declares(schema, name) == \E ci \in DOMAIN schema : schema[ci].name = name

\* The collection a step of p marks as removed or purges; "" for any other
\* step.
RemovalOf(p) ==
  IF inst[p].pc = "migrating" /\ inst'[p] # inst[p]
       /\ Work(inst[p].rec, inst[p].schema).kind = "removeCollection"
    THEN inst[p].rec.collections[Work(inst[p].rec, inst[p].schema).xi].name
  ELSE IF inst[p].rc.pc \in {"remove", "save"} /\ inst'[p].rc # inst[p].rc
    THEN inst[p].rc.names[inst[p].rc.i]
  ELSE ""

\* C14: collection removal is two-phase.  Once an initialisation has
\* succeeded, every collection of the record that the instance does not
\* declare is marked hasBeenRemoved with an empty index list and has no
\* index entry left; no step of an initialisation changes a document; the
\* documents of a collection marked as removed change, and the collection
\* leaves the record, only by a step of removeCollectionsMarkedAsRemoved.
\* The steps that mark or purge a collection change neither the documents,
\* nor the index entries, nor the record entry of another collection, and
\* collectionsCount + removedCollectionsCount is the number of collections
\* of the record.
C14_TwoPhaseRemoval ==
  [][\A p \in Migrators :
       /\ inst'[p].pc = "ready" =>
            \A name \in CollectionNames :
              (RecordEntry(kv', name) # << >> /\ ~Declares(inst'[p].schema, name))
                => /\ MarkedRemoved(kv', name)
                   /\ RecordEntry(kv', name)[1].indexes = << >>
                   /\ IndexPairs(kv', name) = << >>
       /\ InitializationStep(p) =>
            \A name \in CollectionNames : Documents(kv', name) = Documents(kv, name)
       /\ \A name \in CollectionNames :
            (/\ RecordEntry(kv, name) # << >>
             /\ HasRecord(kv')
             /\ \/ RecordEntry(kv', name) = << >>
                \/ /\ MarkedRemoved(kv, name)
                   /\ \/ Documents(kv', name) # Documents(kv, name)
                      \/ RecordEntry(kv', name) # RecordEntry(kv, name))
              => /\ MarkedRemoved(kv, name)
                 /\ inst[p].rc.pc \in {"remove", "save"}
                 /\ RemovalOf(p) = name
       /\ RemovalOf(p) # "" =>
            \A name \in CollectionNames \ {RemovalOf(p)} :
              /\ Documents(kv', name) = Documents(kv, name)
              /\ IndexPairs(kv', name) = IndexPairs(kv, name)
              /\ RecordEntry(kv', name) = RecordEntry(kv, name)
       /\ getStatistics(kv').collectionsCount
            + getStatistics(kv').removedCollectionsCount
              = IF HasRecord(kv') THEN Len(loadDocumentStoreRecord(kv').collections)
                ELSE 0]_vars

\* C14 witness: the instance is initialised without Tags; Tags is marked as
\* removed in the record with its document kept and no index entry, next to
\* a document of People and its index entry.
C14_Witness ==
  \E p \in Migrators :
    /\ inst[p].pc = "ready"
    /\ ~Declares(inst[p].schema, "Tags")
    /\ MarkedRemoved(kv, "Tags")
    /\ Documents(kv, "Tags") # << >>
    /\ IndexPairs(kv, "Tags") = << >>
    /\ Documents(kv, "People") # << >>
    /\ IndexPairs(kv, "People") # << >>

\* An initialisation by p ends at this step.
InitializationEnds(p) ==
  InitializationStep(p) /\ inst'[p].pc \in {"ready", "failed"}

\* The instance declares a collection that the record marks as removed.
DeclaresRemoved(s, schema) ==
  \E name \in CollectionNames : Declares(schema, name) /\ MarkedRemoved(s, name)

\* C15: re-adding a removed collection.  While the record holds a collection
\* marked hasBeenRemoved, every initialisation of an instance that declares
\* it ends with the error ReAddNotSupported: the collection is still marked,
\* its documents are those it had, the lock is released and the instance is
\* not initialised, however often it is tried.  Once the collection has been
\* purged the initialisation succeeds.
C15_ReAddRefused ==
  [][\A p \in Migrators :
       /\ InitializationEnds(p) =>
            IF DeclaresRemoved(kv, inst[p].schema)
              THEN /\ inst'[p].pc = "failed"
                   /\ inst'[p].error = "ReAddNotSupported"
                   /\ ~inst'[p].hasBeenInitialized
                   /\ ~inst'[p].isInitializing
                   /\ ~loadDocumentStoreRecord(kv').isLocked
                   /\ DeclaresRemoved(kv', inst[p].schema)
              ELSE inst'[p].pc = "ready"
       /\ (InitializationStep(p) /\ HasRecord(kv)) =>
            \A name \in CollectionNames :
              MarkedRemoved(kv, name) =>
                /\ MarkedRemoved(kv', name)
                /\ Documents(kv', name) = Documents(kv, name)]_vars

\* C15 witness: the initialisation of an instance that declares Tags has
\* failed with ReAddNotSupported; Tags is marked as removed and keeps its
\* document, the record is unlocked.
C15_Witness ==
  \E p \in Migrators :
    /\ inst[p].pc = "failed"
    /\ inst[p].error = "ReAddNotSupported"
    /\ ~inst[p].hasBeenInitialized
    /\ Declares(inst[p].schema, "Tags")
    /\ MarkedRemoved(kv, "Tags")
    /\ Documents(kv, "Tags") # << >>
    /\ ~loadDocumentStoreRecord(kv).isLocked

(***************************************************************************)
(* Properties of the statistics.                                           *)
(***************************************************************************)
\* The stored documents, of every collection.
AllDocuments(s) ==
  {k \in DOMAIN s : Len(k) = 3 /\ k[2] \in CollectionNames}

\* The (index, document) pairs whose index values are all defined, for the
\* indexes the record lists ...
PersistedPairs(s) ==
  UNION {UNION {{<<c.name, e.keys, k>> :
                   k \in {x \in DOMAIN Documents(s, c.name) :
                            \A j \in DOMAIN e.keys :
                              flatten(s[x])[e.keys[j]] # undefined}} :
                  e \in Range(c.indexes)} :
           c \in Range(loadDocumentStoreRecord(s).collections)}

\* ... and for the indexes a schema declares.
DeclaredPairs(s, schema) ==
  UNION {UNION {{<<c.name, IndexKeys(d), k>> :
                   k \in {x \in DOMAIN Documents(s, c.name) :
                            ~Includes(IndexValues(d, Some(s[x])), undefined)}} :
                  d \in Range(c.indexes)} :
           c \in Range(schema)}

C17_PutFlags ==
  [][out'.op = "put" =>
       LET a == out'.args
           exists == get(kv, People, a.key).present
       IN  /\ out'.error = "DocumentExists"
                <=> (a.errorIfExists = "true" /\ exists)
           /\ out'.error = "DocumentNotFound"
                <=> (a.createIfMissing = "false" /\ ~exists)
           /\ out'.error \in {"", "DocumentExists", "DocumentNotFound"}
           /\ out'.error # "" => kv' = kv /\ "didPut" \notin out'.events
           /\ out'.error = "" =>
                get(kv', People, a.key) = a.doc /\ "didPut" \in out'.events]_vars

\* C17 witness: a put with createIfMissing false and errorIfExists true on
\* a missing key has failed with DocumentNotFound next to a stored document.
C17_Witness ==
  /\ out.op = "put"
  /\ out.error = "DocumentNotFound"
  /\ out.args.errorIfExists = "true"
  /\ StoredKeys(kv, People) = DocKeys \ {out.args.key}

\* The entries that end with a document key, in any index.
EntriesOf(s, key) == {k \in DOMAIN s : Len(k) > 3 /\ Last(k) = key}

\* C18: delete result.  delete returns true exactly when a document was
\* stored under the key, and then the document and all its index entries
\* are gone and the other documents are as they were; on a missing key it
\* changes nothing, and returns false when errorIfMissing is false, or fails
\* with DocumentNotFound when errorIfMissing is true or left out.
C18_DeleteResult ==
  [][out'.op = "delete" =>
       LET a == out'.args
           exists == get(kv, People, a.key).present
       IN  /\ out'.hasBeenDeleted <=> exists
           /\ exists =>
                /\ out'.error = ""
                /\ ~get(kv', People, a.key).present
                /\ EntriesOf(kv', a.key) = {}
                /\ \A k \in DocKeys \ {a.key} :
                     /\ get(kv', People, k) = get(kv, People, k)
                     /\ EntriesOf(kv', k) = EntriesOf(kv, k)
           /\ ~exists =>
                /\ kv' = kv
                /\ out'.error = IF a.errorIfMissing = "false" THEN ""
                                ELSE "DocumentNotFound"]_vars

\* C18 witness: a delete without options has returned true; the other
\* document and its index entries are still there.
C18_Witness ==
  /\ out.op = "delete"
  /\ out.hasBeenDeleted
  /\ out.args.errorIfMissing = "unset"
  /\ StoredKeys(kv, People) = DocKeys \ {out.args.key}
  /\ \E k \in DocKeys : EntriesOf(kv, k) # {}

\* C19: count agrees with find.  For the queries, orders and range bounds
\* given, count returns the number of items of find with the same options
\* and no limit, in the branch without index and in the indexed one, and it
\* fails with IndexNotFound exactly when find does.
C19_CountAgreesWithFind ==
  out.op = "count" =>
    LET r == find(kv, People, out.args.options)
    IN  /\ out.error = "IndexNotFound" <=> ~r.ok
        /\ r.ok => out.error = "" /\ out.count = Len(r.items)

\* C19 witness: a count with a query on a and a bound on n.c has counted
\* one of the two stored documents.
C19_Witness ==
  /\ out.op = "count"
  /\ DOMAIN out.args.options.query = {"a"}
  /\ out.args.options.order = OrderArray(<<"n.c">>)
  /\ out.args.options.startAfter.set
  /\ out.count = 1
  /\ StoredKeys(kv, People) = DocKeys

\* C20: findAndDelete.  For a query and order that find accepts and any
\* batch size, findAndDelete ends normally, has deleted exactly the
\* documents find returned, with their entries in every index, has left the
\* other documents and their entries as they were, returns the number of
\* documents deleted, and called again at once it returns 0.
C20_FindAndDelete ==
  [][out'.op = "findAndDelete" =>
       LET o == out'.args.options
           r == find(kv, People, o)
           again == findAndDelete(kv', People, o, out'.args.batchSize)
       IN  r.ok =>
             /\ out'.error = ""
             /\ StoredKeys(kv', People)
                  = StoredKeys(kv, People) \ Range(KeysOfItems(r.items))
             /\ \A k \in StoredKeys(kv', People) :
                  /\ get(kv', People, k) = get(kv, People, k)
                  /\ EntriesOf(kv', k) = EntriesOf(kv, k)
             /\ IndexIntegrity(kv', People)
             /\ out'.count = Len(r.items)
             /\ again.error = "" /\ again.count = 0]_vars

(***************************************************************************)
(* Properties of find: reverse and the range bounds.                       *)
(***************************************************************************)
\* C21: reverse.  A find with reverse: true and no limit returns the items
\* of the same find with reverse: false in the opposite order, in the
\* branch without index and with every query and order an index serves.
C21_ReverseIsReverse ==
  (out.op = "find" /\ out.args.options.reverse /\ out.error = "") =>
    out.items
      = Reverse(find(kv, People,
                     [out.args.options EXCEPT !.reverse = FALSE]).items)

\* C21 witness: a reversed find with a query on a, ordered by n.c, has
\* returned two documents, the one with the greater n.c first.
C21_Witness ==
  /\ out.op = "find"
  /\ out.args.options.reverse
  /\ DOMAIN out.args.options.query = {"a"}
  /\ out.args.options.order = OrderArray(<<"n.c">>)
  /\ KeysOfItems(out.items) = <<1, 2>>
  /\ kv[makeDocumentKey(People, 1)].n.c > kv[makeDocumentKey(People, 2)].n.c

\* A value x lies within the bounds of the options.
WithinBounds(x, o) ==
  /\ o.start.set => x >= o.start.key[1]
  /\ o.startAfter.set => x > o.startAfter.key[1]
  /\ o.end.set => x <= o.end.key[1]
  /\ o.endBefore.set => x < o.endBefore.key[1]

\* The documents an indexed find is due to return: those the query matches
\* whose first value after the query's (the order value, or the document
\* key when there is no order) lies within the bounds.
DueWithIndex(s, collection, index, o) ==
  {k \in Matching(s, collection, index, o.query) :
     WithinBounds(SortKey(s, collection, index, o.query, k)[1], o)}

DueWithBounds(s, collection, o) ==
  IF DOMAIN o.query = {} /\ Len(normalizeKeys(o.order)) = 0
    THEN {k \in StoredKeys(s, collection) : WithinBounds(k, o)}
    ELSE DueWithIndex(
           s, collection,
           collection.indexes[findIndexForQueryAndOrder(collection.indexes,
                                                        o.query, o.order)],
           o)

\* C22: range bounds.  A find with at most one order property whose bounds
\* hold one value v each returns exactly, each once, the matching documents
\* whose order value is >= v for start, > v for startAfter, <= v for end and
\* < v for endBefore, whatever their document keys; without order the
\* bounds are compared with the document key.
C22_RangeBounds ==
  (/\ out.op = "find" /\ out.error = ""
   /\ Len(normalizeKeys(out.args.options.order)) <= 1) =>
    /\ Range(KeysOfItems(out.items))
         = DueWithBounds(kv, People, out.args.options)
    /\ Len(out.items)
         = Cardinality(DueWithBounds(kv, People, out.args.options))

\* C22 witness: two documents have the order value of the bound; a find
\* with startAfter has left both out and returned nothing.
C22_Witness ==
  /\ out.op = "find"
  /\ out.args.options.order = OrderArray(<<"a">>)
  /\ out.args.options.startAfter = Bound(<<MaxVal>>)
  /\ out.items = << >>
  /\ \A k \in DocKeys :
       /\ KVHas(kv, makeDocumentKey(People, k))
       /\ kv[makeDocumentKey(People, k)].a = MaxVal

(***************************************************************************)
(* Properties of the transaction handle.                                   *)
(***************************************************************************)
\* What a transaction is due to show at a document: what its last write
\* left there, or what the store held when the transaction started.
DueInTransaction(collection, key) ==
  IF <<collection.name, key>> \in tx.touched
    THEN tx.wrote[<<collection.name, key>>]
    ELSE get(tx.before, collection, key)

\* C23: single transaction context.  insideTransaction is false on the root
\* and true on the handle; whatever is done through the handle, nested
\* transaction(fn) calls on it included, one transaction of the key-value
\* store is opened in all; a read through the handle returns what the
\* handle's last write left at the document; the writes are committed
\* together when fn returns and undone together when it throws.
C23_SingleContext ==
  /\ ~insideTransaction("root")
  /\ tx.status = "open" => insideTransaction("handle")
  /\ tx.status # "none" => tx.opened = 1
  /\ (tx.status = "open" /\ tx.read.set) =>
       \A c \in Collections :
         c.name = tx.read.name =>
           tx.read.result = DueInTransaction(c, tx.read.key)
  /\ tx.status = "committed" =>
       \A c \in Collections, k \in DocKeys :
         get(kv, c, k) = DueInTransaction(c, k)
  /\ tx.status = "aborted" => kv = tx.before

\* C23 witness: inside a nested transaction(fn) call the handle has written
\* two documents and then read one of them back.
C23_Witness ==
  /\ tx.status = "open"
  /\ tx.depth = MaxNesting
  /\ Cardinality(tx.touched) = 2
  /\ tx.read.set
  /\ <<tx.read.name, tx.read.key>> \in tx.touched
  /\ tx.read.result.present
  /\ tx.read.result # get(tx.before, People, tx.read.key)

(***************************************************************************)
(* Properties of the version gate                                          *)
(***************************************************************************)

\* The persisted record carries a version other than the code's.
OtherVersion(s) == HasRecord(s) /\ loadDocumentStoreRecord(s).version # VERSION

\* C25: version gating.  An initializeDocumentStore call that ends
\* successfully ends on a record of the code's version.  While the persisted
\* record carries another version, no step changes its version or its
\* collections and no instance is in migrateDocumentStore; a call that ends
\* on such a record ends with CannotDowngrade when the version is greater
\* and with CannotUpgrade when it is below 3, leaves the record unlocked, has
\* emitted neither didUpgrade nor a migration event, and leaves the instance
\* uninitialised with isInitializing reset.
C25_VersionGating ==
  [][\A p \in Procs :
       /\ (InitializationEnds(p) /\ HasRecord(kv) /\ inst'[p].hasBeenInitialized)
            => ~OtherVersion(kv) /\ ~OtherVersion(kv')
       /\ OtherVersion(kv) =>
            LET record == loadDocumentStoreRecord(kv)
            IN  /\ HasRecord(kv')
                /\ loadDocumentStoreRecord(kv').version = record.version
                /\ loadDocumentStoreRecord(kv').collections = record.collections
                /\ inst[p].pc \notin {"migrate", "migrating"}
                /\ inst'[p].pc \notin {"migrate", "migrating"}
                /\ InitializationEnds(p) =>
                     /\ inst'[p].pc = "failed"
                     /\ inst'[p].error =
                          IF record.version > VERSION THEN "CannotDowngrade"
                          ELSE "CannotUpgrade"
                     /\ record.version < VERSION => record.version < 3
                     /\ ~inst'[p].hasBeenInitialized
                     /\ ~inst'[p].isInitializing
                     /\ inst'[p].events \cap
                          {"didUpgrade", "willMigrate", "didMigrate",
                           "didInitialize"} = {}
                     /\ ~loadDocumentStoreRecord(kv').isLocked]_vars

\* Both refusals have happened: one instance ended with CannotDowngrade, or
\* with CannotUpgrade, on an unlocked record of another version.
C25_Witness ==
  /\ OtherVersion(kv)
  /\ ~loadDocumentStoreRecord(kv).isLocked
  /\ \E p \in Procs :
       /\ inst[p].pc = "failed"
       /\ inst[p].error \in {"CannotDowngrade", "CannotUpgrade"}
       /\ inst[p].lastCall = "ran"


(***************************************************************************)
(* Properties of the migration events                                      *)
(***************************************************************************)

\* C26: migration events.  The migration events of one initializeDocumentStore
\* call are none, willMigrate alone, or willMigrate and then didMigrate, each
\* once; when the call ends, didMigrate has been emitted iff willMigrate
\* has, whether the call succeeded or failed; a step of migrateDocumentStore
\* that changes the store comes after willMigrate and before didMigrate; and
\* a call that found the declared schema in the persisted record has emitted
\* neither.
C26_MigrationEvents ==
  [][\A p \in Procs :
       /\ inst'[p].log \in {<< >>, <<"willMigrate">>,
                            <<"willMigrate", "didMigrate">>}
       /\ InitializationEnds(p) =>
            /\ inst'[p].log # <<"willMigrate">>
            /\ inst'[p].identical => inst'[p].log = << >>
       /\ (inst[p].pc = "migrating" /\ inst'[p] # inst[p] /\ kv' # kv)
            => inst[p].log = <<"willMigrate">>]_vars

\* A migration that had changed the store failed part-way, and the call
\* ended with both events emitted.
C26_Witness ==
  \E p \in Procs :
    /\ inst[p].pc = "failed"
    /\ inst[p].error = "IndexRebuildFailed"
    /\ inst[p].log = <<"willMigrate", "didMigrate">>
    /\ ~inst[p].identical

(***************************************************************************)
(* Properties of the guards of initializeDocumentStore and destroyAll      *)
(***************************************************************************)

\* C24 as stated: every call of initializeDocumentStore or destroyAll on a
\* transaction handle fails with TransactionMisuse.
C24_HandleAlwaysRefused ==
  out.op \in {"initializeDocumentStore", "destroyAll"}
    => out.error = "TransactionMisuse"

\* C24 amended: a call of destroyAll on a transaction handle fails with
\* TransactionMisuse; a call of initializeDocumentStore on a handle fails
\* with TransactionMisuse when the root is neither initialised nor
\* initialising and returns without an error otherwise; in every case the
\* store, the content the handle sees and the two flags are what they were.
C24_HandleRefusal ==
  [][(out.op = "none"
        /\ out'.op \in {"initializeDocumentStore", "destroyAll"}) =>
       /\ kv' = kv
       /\ tx'.view = tx.view
       /\ \A p \in Procs :
            /\ inst'[p].hasBeenInitialized = inst[p].hasBeenInitialized
            /\ inst'[p].isInitializing = inst[p].isInitializing
       /\ out'.op = "destroyAll" => out'.error = "TransactionMisuse"
       /\ out'.op = "initializeDocumentStore" =>
            \A p \in Migrators :
              out'.error =
                IF inst[p].hasBeenInitialized \/ inst[p].isInitializing
                  THEN "" ELSE "TransactionMisuse"]_vars

\* initializeDocumentStore on the handle has failed: the transaction began
\* while a body was running, and the body has failed since.
C24_Witness ==
  /\ tx.status = "open"
  /\ out.op = "initializeDocumentStore"
  /\ out.error = "TransactionMisuse"
  /\ \E p \in Migrators : inst[p].pc = "failed"

\* C27: re-entry guard.  On one instance, whatever calls arrive while a body
\* of initializeDocumentStore is at an await, at most one body is in
\* execution; isInitializing is set exactly while one is, so it is false
\* again when the body has ended, with or without an error; and
\* hasBeenInitialized becomes true only in the step that ends a body that
\* raised no error.
C27_ReentryGuard ==
  [][\A p \in Procs :
       /\ inst'[p].bodies <= 1
       /\ inst'[p].isInitializing <=> inst'[p].bodies = 1
       /\ inst'[p].isInitializing <=> InBody(inst'[p])
       /\ (inst'[p].hasBeenInitialized /\ ~inst[p].hasBeenInitialized) =>
            /\ InitializationEnds(p)
            /\ inst'[p].pc = "ready"
            /\ inst'[p].thrown = ""
            /\ inst'[p].bodies = 0]_vars

\* A call has returned at once while the body was running, and the body
\* has ended with an error since: the flags are both false.
C27_Witness ==
  \E p \in Migrators :
    /\ inst[p].waiting >= 1
    /\ inst[p].pc = "failed"
    /\ inst[p].error = "IndexRebuildFailed"
    /\ ~inst[p].isInitializing /\ ~inst[p].hasBeenInitialized

(***************************************************************************)
(* Properties of writes by several instances                               *)
(***************************************************************************)

\* C28: cross-process consistency.  Whatever the interleaving of the
\* operations of the put and delete transactions of several initialised
\* instances with the same schema, the content of the key-value store, and
\* so the content every transaction begins on, has for each index exactly
\* the entries its stored documents call for.
C28_SharedIntegrity ==
  /\ IndexIntegrity(kv, People)
  /\ \A p \in Procs :
       inst[p].w.pc # "none" => IndexIntegrity(inst[p].w.snap, People)

\* Two transactions are in progress on a store with a document and its
\* entries: one began before the document was committed and has written in
\* its own view, the other began after.
C28_Witness ==
  \E p, q \in Procs :
    /\ p # q
    /\ StoredKeys(kv, People) # {}
    /\ \E i \in DOMAIN People.indexes :
         EntriesUnder(kv, People, People.indexes[i]) # {}
    /\ inst[p].w.pc = "commit" /\ inst[p].w.snap # kv
    /\ Written(inst[p].w) # {}
    /\ inst[q].w.pc # "none" /\ inst[q].w.snap = kv

(***************************************************************************)
(* Properties of the keys                                                  *)
(***************************************************************************)

\* What the claim takes for a document key: a non-empty string or a finite
\* number, 0 included.
DocKey(key) == key.is \in {"text", "zero", "finite"}

\* C29: key validation.  get, put, delete and getMany called with a
\* non-empty string or a finite number (0 included) pass the validation of
\* the key; called with any other key they fail with InvalidKey, and the
\* store and the instance (its flags and its position in the initialisation)
\* are what they were.
C29_KeyValidation ==
  [][(out.op = "none" /\ out'.op \in KeyOps) =>
       IF DocKey(out'.given) THEN out'.error = ""
       ELSE out'.error = "InvalidKey" /\ kv' = kv /\ inst' = inst]_vars

(***************************************************************************)
(* Properties of forEach with the options of find                          *)
(***************************************************************************)

\* C30: forEach takes the options of find.  On a store that is not modified
\* meanwhile, a forEach with options that find accepts (query, order, range
\* bounds, reverse, limit) ends normally and has called fn on exactly the
\* items find returns for these options, in find's order; so on no more
\* than limit items.
C30_ForEachAsFind ==
  LET r == find(kv, fe.collection, fe.given)
  IN  (fe.status \in {"done", "error", "diverged"} /\ r.ok) =>
        /\ fe.status = "done"
        /\ fe.visited = KeysOfItems(r.items)
        /\ fe.given.limit > 0 => Len(fe.visited) <= fe.given.limit

(***************************************************************************)
(* Properties of the creation of the record                                *)
(***************************************************************************)
\* The record holds the declared collections and their index metadata.
HoldsDeclared(record, schema) ==
  /\ Len(record.collections) = Len(schema)
  /\ \A ci \in DOMAIN schema :
       /\ record.collections[ci].name = schema[ci].name
       /\ ~record.collections[ci].hasBeenRemoved
       /\ Len(record.collections[ci].indexes) = Len(schema[ci].indexes)
       /\ \A di \in DOMAIN schema[ci].indexes :
            LET x == record.collections[ci].indexes[di]
                index == schema[ci].indexes[di]
            IN  /\ x.keys = IndexKeys(index)
                /\ x.hasProjection = index.hasProjection
                /\ x.projection = index.projection
                /\ x.version = index.version

CallsOf(calls, op) == {n \in DOMAIN calls : calls[n].op = op}

FreeTail(s, collection, options, k) ==
  LET i == findIndexForQueryAndOrder(collection.indexes, options.query,
                                     options.order)
  IN  IF i = 0 THEN <<k>>
      ELSE Tail0(makeIndexKey(collection, collection.indexes[i],
                              IndexValues(collection.indexes[i],
                                          StoredDoc(s, collection, k)), k),
                 2 + Cardinality(DOMAIN options.query))

\* C33: batch cursor.  When a batch of forEach is not empty, the cursor
\* computed from its last item is the free tail of that document's index
\* key (the values of the order properties, then the document key), and the
\* next find starts after it; whether the order properties are top-level,
\* dotted or computed, and whether the items carry a document, a projection
\* or nothing.
C33_BatchCursor ==
  [][LET r == find(kv, fe.collection, fe.options)
     IN  (/\ fe.status = "running"
          /\ fe' # fe
          /\ r.ok /\ Len(r.items) > 0
          /\ fe'.status # "diverged")
           => /\ fe'.status = "running"
              /\ fe'.options.startAfter
                   = Bound(FreeTail(kv, fe.collection, fe.options,
                                    Last(r.items).key))]_vars

(***************************************************************************)
(* Properties of the operations started during an initialisation           *)
(***************************************************************************)
\* C34: writes wait for initialisation.  When a put or a delete of an
\* instance opens its transaction of the key-value store, or a get issues
\* its read, the initialisation of the instance has completed: the instance
\* is initialised and no initializeDocumentStore body is running; also for
\* an operation started while another one is still initialising.
C34_WritesWaitForInitialization ==
  [][\A p \in Migrators :
       (out.op = "none" /\ out'.op \in WaitOps /\ out'.accessed)
         => inst[p].hasBeenInitialized /\ ~inst[p].isInitializing]_vars

(***************************************************************************)
(* Properties of the persisted state during a migration                    *)
(***************************************************************************)
\* The index listed in the record (its keys name simple properties) has an
\* entry for every stored document of the collection whose values for
\* these keys are all defined.
ListedIndexComplete(s, name, listed) ==
  \A k \in DOMAIN Documents(s, name) :
    LET values == [n \in DOMAIN listed.keys |-> flatten(s[k])[listed.keys[n]]]
    IN  ~Includes(values, undefined) =>
          KVHas(s, <<storeName,
                     makeIndexCollectionName(name, makeIndexName(listed.keys))>>
                     \o values \o <<Last(k)>>)

\* Every index the record lists is complete.
ListedIndexesComplete(s) ==
  HasRecord(s) =>
    \A ci \in DOMAIN loadDocumentStoreRecord(s).collections :
      LET c == loadDocumentStoreRecord(s).collections[ci]
      IN  \A xi \in DOMAIN c.indexes :
            ListedIndexComplete(s, c.name, c.indexes[xi])

\* C35: crash safety of registration.  At every point of an initialisation
\* (so wherever the process may stop) the persisted state is such that every
\* index the record lists has an entry for every stored document whose
\* index values are all defined, for an index the migration adds as for one
\* it rebuilds.
C35_ListedIndexesComplete == ListedIndexesComplete(kv)

IndexSegment(collection, index) ==
  makeIndexCollectionName(collection.name, makeIndexName(IndexKeys(index)))

\* C37: key-space injectivity.  Within one store, two declared indexes of a
\* collection with different keys have different name segments, and the
\* document segment of a collection is not the name segment of an index of
\* another collection; so the pairs under a collection's document segment
\* are its documents and the pairs under an index's segment are the entries
\* of that index.
C37_KeySpaceInjectivity ==
  LET schema == Range(inst[1].schema)
  IN  /\ \A c \in schema : \A i, j \in DOMAIN c.indexes :
            IndexKeys(c.indexes[i]) # IndexKeys(c.indexes[j])
              => IndexSegment(c, c.indexes[i]) # IndexSegment(c, c.indexes[j])
      /\ \A c, d \in schema : \A i \in DOMAIN d.indexes :
            c # d => c.name # IndexSegment(d, d.indexes[i])
      /\ \A c \in schema :
            /\ \A k \in DOMAIN kv : Len(k) >= 2 /\ k[2] = c.name => Len(k) = 3
            /\ IndexIntegrity(kv, c)

(***************************************************************************)
(* Properties of find next to the writes of other callers                  *)
(***************************************************************************)
\* The document of the item holds the values of the query.
ItemMatches(item, query) ==
  \A k \in DOMAIN query : flatten(item.document.doc)[k] = query[k]

\* C38: snapshot consistency of find outside a transaction.  When an indexed
\* find that fetches full documents returns, whatever puts and deletes have
\* committed between its index read and its getMany, every item returned is
\* a document that matches the query, and the list is what the same find
\* returns on one of the committed states between the start and the end of
\* the call.
C38_SnapshotConsistency ==
  out.op = "find" /\ out.calls # << >> =>
    /\ \A i \in DOMAIN out.items :
         ItemMatches(out.items[i], out.args.options.query)
    /\ \E j \in DOMAIN out.calls :
         out.items = find(out.calls[j], People, out.args.options).items

(***************************************************************************)
(* Properties of the rebuild of an index                                   *)
(***************************************************************************)
\* The entries under the segment of the index are those the stored documents
\* call for, each with the projection of the stored document.
EntriesCurrent(s, collection, index) ==
  /\ EntriesUnder(s, collection, index) = EntriesDue(s, collection, index)
  /\ \A k \in StoredKeys(s, collection) :
       LET doc == StoredDoc(s, collection, k)
           entry == makeIndexKey(collection, index, IndexValues(index, doc), k)
       IN  KVHas(s, entry) => s[entry] = Projection(index, doc)

\* C39: index rebuild under concurrent writes.  When the scan of _addIndex
\* or _updateIndex is over and the index is registered, the index holds the
\* entries of the documents stored then and no entry of a superseded
\* version of a document, whatever puts and deletes of the same instance or
\* of another initialised instance have committed between the batch reads
\* of the scan and its index writes.
C39_RebuildIntegrity ==
  [][\A p \in Migrators :
       RebuildEnd(p) => EntriesCurrent(kv', PeopleIndexed, RebuiltIndex)]_vars

====
